---- MODULE Spec2Model ----
(***************************************************************************)
(* A model of wormhole/twisted/transit.py: the Connection handshake state  *)
(* machine and record framer, the inbound listener, the race arbiter       *)
(* (_ThereCanBeOnlyOne), and the Transit core (Common) of a sender and a   *)
(* receiver.                                                               *)
(*                                                                         *)
(* Bytes are sequences of integers 0..255.  A Deferred is a record         *)
(* [st, v]: st is "pending", "ok" or "err", v the value or the error name. *)
(* These specifications share the operators below:                         *)
(*   SpecArb    the race arbiter with its overall deadline,                *)
(*   SpecKey    set_transit_key / _get_transit_key / connect,              *)
(*   SpecRec    records over an established Connection,                    *)
(*   SpecReady  the Connections of one Transit reporting ready,            *)
(*   SpecEnd    close() and the loss of an established Connection,         *)
(*   SpecTimer  one Connection and its inactivity timer against the clock, *)
(*   SpecShake  one Connection reading its peer's bytes in chunks,         *)
(*   SpecDial   connect() of one Transit over direct and relay hints,      *)
(*   SpecDialFair  the same with the reactor running the deadline call,    *)
(*   Spec       a TransitSender and a TransitReceiver racing their         *)
(*              inbound and outbound connections.                          *)
(***************************************************************************)
EXTENDS Integers, Sequences, FiniteSets, TLC

----------------------------------------------------------------------------
(* Bounds of the model *)

\* records a Connection sends in SpecRec
MaxRecords == 2
\* receive_record() calls in SpecRec
MaxReads == 2
\* out-of-order frames the network injects in SpecRec
MaxInjected == 1
\* connect() calls on one Transit in SpecKey
MaxCallers == 3
\* plain contenders besides the listener in SpecArb
MaxDials == 3
\* the seconds the clock of SpecTimer runs
MaxClock == 20
\* the direct hints with an endpoint in one set of hints
MaxDirect == 1

----------------------------------------------------------------------------
(* Program constants *)

\* SecretBox.NONCE_SIZE, asserted by send_record
NONCE_SIZE == 24
\* the length prefix: "%08x" is 4 bytes
LENGTH_SIZE == 4
\* the authenticator SecretBox puts between the nonce and the ciphertext
MAC_SIZE == 16
\* self._transit_key = None
NoKey == 0
\* TIMEOUT, in seconds
TIMEOUT == 15
\* Common.RELAY_DELAY, in seconds
RELAY_DELAY == 2

\* the transit key both sides are given
TheKey == NoKey + 1

None == "None"

----------------------------------------------------------------------------
(* Byte strings *)

Take(s, n) == SubSeq(s, 1, IF n < Len(s) THEN n ELSE Len(s))

Drop(s, n) == SubSeq(s, n + 1, Len(s))

\* bytes.startswith
StartsWith(s, p) == Len(p) <= Len(s) /\ SubSeq(s, 1, Len(p)) = p

\* unhexlify("%0<2w>x" % n): n as w big-endian bytes
RECURSIVE BytesOf(_, _)
BytesOf(n, w) ==
    IF w = 0 THEN <<>> ELSE Append(BytesOf(n \div 256, w - 1), n % 256)

\* int(hexlify(b), 16): big-endian bytes as a number
RECURSIVE IntOf(_)
IntOf(b) ==
    IF b = <<>> THEN 0
    ELSE 256 * IntOf(SubSeq(b, 1, Len(b) - 1)) + b[Len(b)]

RECURSIVE Repeat(_, _)
Repeat(x, n) == IF n = 0 THEN <<>> ELSE <<x>> \o Repeat(x, n - 1)

RECURSIVE Flatten(_)
Flatten(ss) == IF ss = <<>> THEN <<>> ELSE ss[1] \o Flatten(Tail(ss))

\* b"ok\n", b"go\n", b"nevermind\n"
OK_ == <<111, 107, 10>>
GO == <<103, 111, 10>>
NEVERMIND == <<110, 101, 118, 101, 114, 109, 105, 110, 100, 10>>

\* transit_common: fixed byte strings derived from the key, the same on both
\* sides for the same key and different for different keys and roles
build_sender_handshake(key) == <<115, key, 10>>
build_receiver_handshake(key) == <<114, key, 10>>
build_relay_handshake(key) == <<112, key, 10>>

\* HKDF(key, KEY_SIZE, CTXinfo=...): one subkey per (key, info)
HKDF(key, info) == 10 * key + (IF info = "transit_record_sender_key" THEN 1 ELSE 2)

\* SecretBox(key).encrypt(record, nonce): nonce, authenticator, ciphertext
SecretBox_encrypt(key, record, nonce) == nonce \o Repeat(key, MAC_SIZE) \o record

\* SecretBox(key).decrypt(encrypted): the plaintext, or CryptoError
SecretBox_decrypt(key, encrypted) ==
    IF Len(encrypted) >= NONCE_SIZE + MAC_SIZE
       /\ SubSeq(encrypted, NONCE_SIZE + 1, NONCE_SIZE + MAC_SIZE) = Repeat(key, MAC_SIZE)
    THEN [ok |-> TRUE, record |-> Drop(encrypted, NONCE_SIZE + MAC_SIZE)]
    ELSE [ok |-> FALSE, record |-> <<>>]

BadHandshakes == {"BadHandshake(got)", "BadHandshake(abandoned)",
                  "BadHandshake(timeout)", "BadHandshake(connection lost)"}

----------------------------------------------------------------------------
(* Deferred (twisted.internet.defer) *)

Pending == [st |-> "pending", v |-> ""]
Fired(v) == [st |-> "ok", v |-> v]
Failed(e) == [st |-> "err", v |-> e]

\* a receive_record() Deferred
ReadPending == [st |-> "pending", rec |-> <<>>, e |-> ""]
ReadFired(r) == [st |-> "ok", rec |-> r, e |-> ""]
ReadFailed(e) == [st |-> "err", rec |-> <<>>, e |-> e]

----------------------------------------------------------------------------
(* Common: what a Connection asks of its owner.  An owner is a record      *)
(* [is_sender, key, winner, winner_description].                           *)

NewOwner(is_sender) ==
    [is_sender |-> is_sender, key |-> NoKey, winner |-> None,
     winner_description |-> None]

_send_this(o) ==
    IF o.is_sender THEN build_sender_handshake(o.key)
    ELSE build_receiver_handshake(o.key)

_expect_this(o) ==
    IF o.is_sender THEN build_receiver_handshake(o.key)
    ELSE build_sender_handshake(o.key)

_sender_record_key(o) ==
    IF o.is_sender THEN HKDF(o.key, "transit_record_sender_key")
    ELSE HKDF(o.key, "transit_record_receiver_key")

_receiver_record_key(o) ==
    IF o.is_sender THEN HKDF(o.key, "transit_record_receiver_key")
    ELSE HKDF(o.key, "transit_record_sender_key")

\* connection_ready without the test of self._winner: every Connection of a
\* sender wins
connection_ready_always_go(o, p, description) ==
    IF ~o.is_sender THEN [state |-> "wait-for-decision", o |-> o]
    ELSE [state |-> "go",
          o |-> [o EXCEPT !.winner = p, !.winner_description = description]]

\* the next state of Connection p, and the owner afterwards
connection_ready(o, p, description) ==
    IF ~o.is_sender THEN [state |-> "wait-for-decision", o |-> o]
    ELSE IF o.winner # None THEN [state |-> "nevermind", o |-> o]
    ELSE [state |-> "go",
          o |-> [o EXCEPT !.winner = p, !.winner_description = description]]

describe(o) ==
    IF o.winner = None THEN "not yet established" ELSE o.winner_description

----------------------------------------------------------------------------
(* Connection.  Besides the fields __init__ sets: id (the object), timer   *)
(* (TimeoutMixin's pending call), closed (transport.loseConnection() was   *)
(* called), lost (connectionLost ran), out (the writes handed to the       *)
(* transport), neg (the result of the Deferred __init__ made, negd telling *)
(* whether self._negotiation_d still holds it), reads (the Deferreds       *)
(* receive_record returned, in order) and consumed (what the consumer was  *)
(* written).  A nonce of -1 and a key of 0 are attributes not yet set.     *)

NewConnection(id, relay_handshake) ==
    [id |-> id, state |-> "too-early", buf |-> <<>>,
     relay_handshake |-> relay_handshake, description |-> None,
     negd |-> TRUE, neg |-> Pending, error |-> None,
     consumer |-> FALSE, inbound_records |-> <<>>, waiting_reads |-> <<>>,
     timer |-> FALSE, closed |-> FALSE, lost |-> FALSE, out |-> <<>>,
     send_key |-> 0, send_nonce |-> -1,
     receive_key |-> 0, next_receive_nonce |-> -1,
     reads |-> <<>>, consumed |-> <<>>]

\* self.transport.write(data): data written before the connection is lost
\* is sent, also after loseConnection()
transport_write(c, data) ==
    IF c.lost THEN c ELSE [c EXCEPT !.out = Append(@, data)]

\* self.transport.loseConnection()
loseConnection(c) == [c EXCEPT !.closed = TRUE]

\* _check_and_remove taking a strict prefix for a divergence
_check_and_remove_whole_only(buf, expected) ==
    IF ~StartsWith(buf, expected)
    THEN [r |-> "raise", buf |-> buf]
    ELSE [r |-> "ok", buf |-> Drop(buf, Len(expected))]

\* "raise" on divergence, "wait" on a strict prefix, else "ok" and the rest
_check_and_remove(buf, expected) ==
    IF ~StartsWith(buf, Take(expected, Len(buf)))
    THEN [r |-> "raise", buf |-> buf]
    ELSE IF Len(buf) < Len(expected)
    THEN [r |-> "wait", buf |-> buf]
    ELSE [r |-> "ok", buf |-> Drop(buf, Len(expected))]

RECURSIVE _deliverRecords(_)
_deliverRecords(c) ==
    IF c.inbound_records # <<>> /\ c.waiting_reads # <<>>
    THEN _deliverRecords(
           [c EXCEPT !.inbound_records = Tail(@),
                     !.waiting_reads = Tail(@),
                     !.reads[c.waiting_reads[1]] = ReadFired(c.inbound_records[1])])
    ELSE c

recordReceived(c, record) ==
    IF c.consumer THEN [c EXCEPT !.consumed = Append(@, record)]
    ELSE _deliverRecords([c EXCEPT !.inbound_records = Append(@, record)])

receive_record(c) ==
    _deliverRecords([c EXCEPT !.reads = Append(@, ReadPending),
                              !.waiting_reads = Append(@, Len(c.reads) + 1)])

\* _decrypt_record without the test of the nonce
_decrypt_record_any_nonce(c, encrypted) ==
    LET plain == SecretBox_decrypt(c.receive_key, encrypted)
        c1 == [c EXCEPT !.next_receive_nonce = @ + 1]
    IN  IF ~plain.ok
        THEN [c |-> c1, exc |-> "CryptoError", record |-> <<>>]
        ELSE [c |-> c1, exc |-> None, record |-> plain.record]

\* [c, exc, record]: exc names what was raised
_decrypt_record(c, encrypted) ==
    LET nonce_buf == Take(encrypted, NONCE_SIZE)
        plain == SecretBox_decrypt(c.receive_key, encrypted)
        c1 == [c EXCEPT !.next_receive_nonce = @ + 1]
    IN  IF nonce_buf = <<>>
        THEN [c |-> c, exc |-> "ValueError", record |-> <<>>]
        ELSE IF IntOf(nonce_buf) # c.next_receive_nonce
        THEN [c |-> c, exc |-> "BadNonce", record |-> <<>>]
        ELSE IF ~plain.ok
        THEN [c |-> c1, exc |-> "CryptoError", record |-> <<>>]
        ELSE [c |-> c1, exc |-> None, record |-> plain.record]

\* [c, exc]: at most one record leaves the buffer per call
dataReceivedRECORDS(c) ==
    IF Len(c.buf) < LENGTH_SIZE THEN [c |-> c, exc |-> None]
    ELSE LET length == IntOf(Take(c.buf, LENGTH_SIZE))
         IN IF Len(c.buf) < LENGTH_SIZE + length THEN [c |-> c, exc |-> None]
            ELSE LET encrypted == SubSeq(c.buf, LENGTH_SIZE + 1, LENGTH_SIZE + length)
                     c1 == [c EXCEPT !.buf = Drop(@, LENGTH_SIZE + length)]
                     d == _decrypt_record(c1, encrypted)
                 IN IF d.exc # None THEN [c |-> d.c, exc |-> d.exc]
                    ELSE [c |-> recordReceived(d.c, d.record), exc |-> None]

send_record(c, record) ==
    LET nonce == BytesOf(c.send_nonce, NONCE_SIZE)
        encrypted == SecretBox_encrypt(c.send_key, record, nonce)
        length == BytesOf(Len(encrypted), LENGTH_SIZE)
    IN  transport_write(
          transport_write([c EXCEPT !.send_nonce = @ + 1], length), encrypted)

(* _dataReceived runs on a record [c, o, exc, ret, ready]: the Connection,  *)
(* its owner, the exception raised so far, whether the function returned,  *)
(* and what owner.connection_ready answered if it was called.              *)

Running(m) == m.exc = None /\ ~m.ret

\* _negotiationSuccessful without self.setTimeout(None)
_negotiationSuccessful_keeps_timer(m) ==
    LET c1 == [m.c EXCEPT !.state = "records",
                          !.send_key = _sender_record_key(m.o),
                          !.send_nonce = 0,
                          !.receive_key = _receiver_record_key(m.o),
                          !.next_receive_nonce = 0,
                          !.negd = FALSE]
    IN  [m EXCEPT !.c = [c1 EXCEPT !.neg = Fired(m.c.id)]]

_negotiationSuccessful(m) ==
    LET c1 == [m.c EXCEPT !.state = "records", !.timer = FALSE,
                          !.send_key = _sender_record_key(m.o),
                          !.send_nonce = 0,
                          !.receive_key = _receiver_record_key(m.o),
                          !.next_receive_nonce = 0,
                          !.negd = FALSE]
    IN  IF m.c.negd /\ m.c.neg.st = "pending"
        THEN [m EXCEPT !.c = [c1 EXCEPT !.neg = Fired(m.c.id)]]
        ELSE [m EXCEPT !.c = c1,
                       !.exc = IF m.c.negd THEN "AlreadyCalledError"
                               ELSE "AttributeError"]

\* if self.state == "relay"
StepRelay(m) ==
    IF ~(Running(m) /\ m.c.state = "relay") THEN m
    ELSE LET r == _check_and_remove(m.c.buf, OK_)
         IN CASE r.r = "raise" -> [m EXCEPT !.exc = "BadHandshake(got)"]
              [] r.r = "wait" -> [m EXCEPT !.ret = TRUE]
              [] OTHER -> [m EXCEPT !.c.buf = r.buf, !.c.state = "start"]

\* if self.state == "start"
StepStart(m) ==
    IF ~(Running(m) /\ m.c.state = "start") THEN m
    ELSE [m EXCEPT !.c = [transport_write(m.c, _send_this(m.o))
                            EXCEPT !.state = "handshake"]]

\* if self.state == "handshake"
StepHandshake(m) ==
    IF ~(Running(m) /\ m.c.state = "handshake") THEN m
    ELSE LET r == _check_and_remove(m.c.buf, _expect_this(m.o))
             ready == connection_ready(m.o, m.c.id, m.c.description)
         IN CASE r.r = "raise" -> [m EXCEPT !.exc = "BadHandshake(got)"]
              [] r.r = "wait" -> [m EXCEPT !.ret = TRUE]
              [] OTHER -> [m EXCEPT !.c.buf = r.buf, !.c.state = ready.state,
                                    !.o = ready.o, !.ready = ready.state]

\* if self.state == "wait-for-decision"
StepWaitForDecision(m) ==
    IF ~(Running(m) /\ m.c.state = "wait-for-decision") THEN m
    ELSE LET r == _check_and_remove(m.c.buf, GO)
         IN CASE r.r = "raise" -> [m EXCEPT !.exc = "BadHandshake(got)"]
              [] r.r = "wait" -> [m EXCEPT !.ret = TRUE]
              [] OTHER -> _negotiationSuccessful([m EXCEPT !.c.buf = r.buf])

\* if self.state == "go"
StepGo(m) ==
    IF ~(Running(m) /\ m.c.state = "go") THEN m
    ELSE _negotiationSuccessful([m EXCEPT !.c = transport_write(m.c, GO)])

\* if self.state == "nevermind"
StepNevermind(m) ==
    IF ~(Running(m) /\ m.c.state = "nevermind") THEN m
    ELSE [m EXCEPT !.c = transport_write(m.c, NEVERMIND),
                   !.exc = "BadHandshake(abandoned)"]

\* if self.state == "records"
StepRecords(m) ==
    IF ~(Running(m) /\ m.c.state = "records") THEN m
    ELSE LET r == dataReceivedRECORDS(m.c)
         IN [m EXCEPT !.c = r.c, !.exc = r.exc, !.ret = TRUE]

_dataReceived(c, o, data) ==
    StepRecords(StepNevermind(StepGo(StepWaitForDecision(StepHandshake(
      StepStart(StepRelay(
        [c |-> [c EXCEPT !.buf = @ \o data], o |-> o,
         exc |-> None, ret |-> FALSE, ready |-> None])))))))

\* [c, o, raised, ready]: raised names the exception dataReceived lets through
dataReceived(c, o, data) ==
    LET m == _dataReceived(c, o, data)
    IN  IF m.exc = None
        THEN [c |-> m.c, o |-> m.o, raised |-> None, ready |-> m.ready]
        ELSE [c |-> [loseConnection([m.c EXCEPT !.timer = FALSE,
                                                !.error = m.exc])
                       EXCEPT !.state = "hung up"],
              o |-> m.o,
              raised |-> IF m.exc \in BadHandshakes THEN None ELSE m.exc,
              ready |-> m.ready]

\* connectionMade: setTimeout(TIMEOUT); the factory then starts negotiation
connectionMade(c) == [c EXCEPT !.timer = TRUE]

\* [c, o, raised, ready]; the Deferred returned is c.neg
startNegotiation(c, o, description) ==
    LET c1 == [c EXCEPT !.description = description]
        c2 == IF c.relay_handshake # <<>>
              THEN [transport_write(c1, c.relay_handshake) EXCEPT !.state = "relay"]
              ELSE [c1 EXCEPT !.state = "start"]
    IN  dataReceived(c2, o, <<>>)

\* _cancel without self.transport.loseConnection()
Connection_cancel_without_close(c) ==
    [c EXCEPT !.state = "hung up", !.error = "CancelledError", !.negd = FALSE]

\* the canceller of the negotiation Deferred, and Deferred.cancel firing it
Connection_cancel(c) ==
    [loseConnection([c EXCEPT !.state = "hung up", !.error = "CancelledError"])
       EXCEPT !.negd = FALSE]

\* self._negotiation_d.cancel(), when it has not fired
cancel_negotiation(c) ==
    IF c.neg.st # "pending" THEN c
    ELSE [Connection_cancel(c) EXCEPT !.neg = Failed("CancelledError")]

\* timeoutConnection without self._error
timeoutConnection_without_error(c) == loseConnection([c EXCEPT !.timer = FALSE])

timeoutConnection(c) ==
    loseConnection([c EXCEPT !.timer = FALSE, !.error = "BadHandshake(timeout)"])

\* connectionLost without the test of self._negotiation_d
connectionLost_errbacks_again(c) ==
    [c EXCEPT !.timer = FALSE, !.negd = FALSE, !.lost = TRUE,
              !.neg = Failed(IF c.error # None THEN c.error
                             ELSE "BadHandshake(connection lost)")]

connectionLost(c) ==
    LET c1 == [c EXCEPT !.timer = FALSE, !.negd = FALSE, !.lost = TRUE]
    IN  IF c.negd /\ c.neg.st = "pending"
        THEN [c1 EXCEPT !.neg = Failed(IF c.error # None THEN c.error
                                       ELSE "BadHandshake(connection lost)")]
        ELSE c1

\* close without failing the waiting reads
close_keeps_readers(c) == loseConnection(c)

close(c) ==
    [loseConnection(c) EXCEPT
       !.waiting_reads = <<>>,
       !.reads = [i \in DOMAIN c.reads |->
                    IF \E j \in DOMAIN c.waiting_reads : c.waiting_reads[j] = i
                    THEN ReadFailed("ConnectionClosed") ELSE c.reads[i]]]

\* [c, raised]: a second consumer is refused
connectConsumer(c) ==
    IF c.consumer THEN [c |-> c, raised |-> "RuntimeError"]
    ELSE [c |-> [c EXCEPT !.consumer = TRUE, !.inbound_records = <<>>,
                          !.consumed = @ \o c.inbound_records],
          raised |-> None]

\* [c, raised]: self._consumer.unregisterProducer() on None raises
disconnectConsumer(c) ==
    IF ~c.consumer THEN [c |-> c, raised |-> "AttributeError"]
    ELSE [c |-> [c EXCEPT !.consumer = FALSE], raised |-> None]

----------------------------------------------------------------------------
(* _ThereCanBeOnlyOne.  An arbiter is a record of the fields __init__      *)
(* sets, with ds (the contender Deferreds' results), attached (the         *)
(* contenders run() has given their callbacks) and nfire (how often        *)
(* _winner_d was called back).  list(self._remaining) iterates in an       *)
(* arbitrary order: order, a sequence of all contenders, gives it.  ce     *)
(* names the failure each contender's own canceller leaves it with.        *)

Orders(S) ==
    {o \in [1..Cardinality(S) -> S] : \A i, j \in DOMAIN o : o[i] = o[j] => i = j}

\* list(s), iterated in the given order
ListOf(s, order) == SelectSeq(order, LAMBDA d : d \in s)

NewArbiter(ds) ==
    [remaining |-> {}, attached |-> {}, ds |-> ds,
     winner_d |-> Pending, first_success |-> None, first_failure |-> None,
     have_winner |-> FALSE, fired |-> FALSE, nfire |-> 0]

\* __init__: self._remaining = set(contenders)
ThereCanBeOnlyOne_init(a, contenders) == [a EXCEPT !.remaining = contenders]

_remove(a, d) == [a EXCEPT !.remaining = @ \ {d}]

\* _failed without the test of self._first_failure: the last failure stays
_failed_keeps_last(a, f) == [a EXCEPT !.first_failure = f]

_failed(a, f) ==
    IF a.first_failure = None THEN [a EXCEPT !.first_failure = f] ELSE a

_maybe_done(a) ==
    IF a.remaining # {} THEN a
    ELSE IF a.fired THEN a
    ELSE [a EXCEPT !.fired = TRUE,
                   !.nfire = @ + 1,
                   !.winner_d = IF a.winner_d.st # "pending" THEN @
                                ELSE IF a.have_winner THEN Fired(a.first_success)
                                ELSE Failed(a.first_failure)]

\* contender d fires with failure f: its callbacks run if run() attached them
contender_errback(a, d, f) ==
    LET a1 == [a EXCEPT !.ds[d] = Failed(f)]
    IN  IF d \in a.attached THEN _maybe_done(_failed(_remove(a1, d), f)) ELSE a1

\* d.cancel() on a contender: nothing if it has fired
contender_cancel(a, d, ce) ==
    IF a.ds[d].st = "pending" THEN contender_errback(a, d, ce[d]) ELSE a

\* for d in ...: d.cancel()
RECURSIVE cancel_each(_, _, _)
cancel_each(a, list, ce) ==
    IF list = <<>> THEN a
    ELSE cancel_each(contender_cancel(a, list[1], ce), Tail(list), ce)

\* _succeeded without the loop that cancels the others
_succeeded_without_cancel(a, res, order, ce) ==
    [a EXCEPT !.have_winner = TRUE, !.first_success = res]

_succeeded(a, res, order, ce) ==
    cancel_each([a EXCEPT !.have_winner = TRUE, !.first_success = res],
                ListOf(a.remaining, order), ce)

\* contender d fires with value v
contender_callback(a, d, v, order, ce) ==
    LET a1 == [a EXCEPT !.ds[d] = Fired(v)]
    IN  IF d \in a.attached
        THEN _maybe_done(_succeeded(_remove(a1, d), v, order, ce))
        ELSE a1

\* run() gives d its callbacks; they run at once if d has fired
attach(a, d, order, ce) ==
    LET a1 == [a EXCEPT !.attached = @ \cup {d}]
    IN  CASE a.ds[d].st = "ok" ->
               _maybe_done(_succeeded(_remove(a1, d), a.ds[d].v, order, ce))
          [] a.ds[d].st = "err" ->
               _maybe_done(_failed(_remove(a1, d), a.ds[d].v))
          [] OTHER -> a1

RECURSIVE attach_each(_, _, _, _)
attach_each(a, list, order, ce) ==
    IF list = <<>> THEN a
    ELSE attach_each(attach(a, list[1], order, ce), Tail(list), order, ce)

run(a, order, ce) == attach_each(a, ListOf(a.remaining, order), order, ce)

there_can_be_only_one(a, contenders, order, ce) ==
    run(ThereCanBeOnlyOne_init(a, contenders), order, ce)

\* a summary Deferred without its canceller: cancel() fails the summary and
\* leaves the contenders alone
ThereCanBeOnlyOne_cancel_summary_only(a, order, ce) ==
    IF a.winner_d.st # "pending" THEN a
    ELSE [a EXCEPT !.winner_d = Failed("CancelledError"), !.nfire = @ + 1]

\* self._winner_d.cancel(): the canceller _cancel, then Deferred.cancel's
\* own errback if the canceller left the summary unfired
ThereCanBeOnlyOne_cancel(a, order, ce) ==
    IF a.winner_d.st # "pending" THEN a
    ELSE LET a1 == cancel_each(a, ListOf(a.remaining, order), ce)
         IN IF a1.winner_d.st = "pending"
            THEN [a1 EXCEPT !.winner_d = Failed("CancelledError"), !.nfire = @ + 1]
            ELSE a1

\* _not_forever without reactor.callLater(timeout, d.cancel)
_not_forever_without_timer(a) == FALSE

\* _not_forever: the timer t is active once d.addBoth(_done) has run only if
\* d is still pending
_not_forever(a) == a.winner_d.st = "pending"

\* _done: a timer that was active is cancelled when d fires
_done(t, a) == t /\ a.winner_d.st = "pending"

----------------------------------------------------------------------------
(* Common: the transit key and the connect() calls waiting for it.  A key  *)
(* state is a record w: key (self._transit_key), waiting (the list         *)
(* _waiting_for_transit_key, holding callers), has_waiting (the attribute  *)
(* exists), kd (per caller, the Deferred connect() returned: "none" before *)
(* the call, "pending" while parked, "chained" once its callback _connect  *)
(* has run and it waits for the race; suppress is the Deferred's           *)
(* _suppressAlreadyCalled), started (the calls of _connect, in order, with *)
(* the key each found) and raised (an exception that escaped).             *)

NoDeferred == [st |-> "none", v |-> "", suppress |-> FALSE]

NewKeyState(callers) ==
    [key |-> NoKey, waiting |-> <<>>, has_waiting |-> TRUE,
     kd |-> [i \in callers |-> NoDeferred], started |-> <<>>, raised |-> None]

\* d fires with the key: the callback connect() added, _connect, runs
key_fired(w, i) ==
    [w EXCEPT !.kd[i] = [st |-> "chained", v |-> "", suppress |-> FALSE],
              !.started = Append(@, [caller |-> i, key |-> w.key])]

\* d.callback(key) on the Deferred of caller i
Deferred_callback(w, i) ==
    IF w.kd[i].st = "pending" THEN key_fired(w, i)
    ELSE IF w.kd[i].suppress THEN [w EXCEPT !.kd[i].suppress = FALSE]
    ELSE [w EXCEPT !.raised = "AlreadyCalledError"]

\* for d in waiters: d.callback(key)
RECURSIVE callback_each(_, _)
callback_each(w, waiters) ==
    IF waiters = <<>> \/ w.raised # None THEN w
    ELSE callback_each(Deferred_callback(w, waiters[1]), Tail(waiters))

\* set_transit_key going through the waiters from the newest to the oldest
set_transit_key_newest_first(w, key) ==
    IF ~w.has_waiting THEN [w EXCEPT !.key = key, !.raised = "AttributeError"]
    ELSE callback_each([w EXCEPT !.key = key, !.waiting = <<>>,
                                 !.has_waiting = FALSE],
                       [n \in 1..Len(w.waiting) |->
                          w.waiting[Len(w.waiting) + 1 - n]])

set_transit_key(w, key) ==
    IF ~w.has_waiting THEN [w EXCEPT !.key = key, !.raised = "AttributeError"]
    ELSE callback_each([w EXCEPT !.key = key, !.waiting = <<>>,
                                 !.has_waiting = FALSE],
                       w.waiting)

\* d = self._get_transit_key() for caller i; TRUE in now if d has fired
_get_transit_key(w, i) ==
    IF w.key # NoKey THEN [w |-> w, now |-> TRUE]
    ELSE IF ~w.has_waiting
    THEN [w |-> [w EXCEPT !.raised = "AttributeError"], now |-> FALSE]
    ELSE [w |-> [w EXCEPT !.waiting = Append(@, i),
                          !.kd[i] = [st |-> "pending", v |-> "", suppress |-> FALSE]],
          now |-> FALSE]

\* connect() by caller i, up to the call of _connect
connect(w, i) ==
    LET g == _get_transit_key(w, i)
    IN  IF g.now THEN key_fired(g.w, i) ELSE g.w

\* cancel() that does not make the Deferred swallow the callback to come
Deferred_cancel_unsuppressed(w, i) ==
    IF w.kd[i].st = "pending"
    THEN [w EXCEPT !.kd[i] = [st |-> "err", v |-> "CancelledError", suppress |-> FALSE]]
    ELSE w

\* d.cancel() on a Deferred connect() returned that still waits for the key:
\* it has no canceller, so it fails with CancelledError and will swallow the
\* callback that comes later
Deferred_cancel(w, i) ==
    IF w.kd[i].st = "pending"
    THEN [w EXCEPT !.kd[i] = [st |-> "err", v |-> "CancelledError", suppress |-> TRUE]]
    ELSE w

----------------------------------------------------------------------------
(* The state.  Nine parts of the program are run, each by a specification  *)
(* of its own over its own variables; an action of one part leaves the     *)
(* variables of the other parts as they are.                               *)

\* SpecArb: the arbiter, the deadline timer, whether _connect has run, the log
VARIABLES arb, timer, ran, hist

\* SpecKey: the key and the waiting connect() calls, the log of the calls
VARIABLES ks, registered

\* SpecRec: the two ends of an established connection, the bytes in flight,
\* the records sent, the frames injected
VARIABLES sc, rc, wire, sent, injected

\* SpecReady: one Transit, its Connections, the bytes in flight to each, the
\* log of connection_ready
VARIABLES ro, rconn, rin, rcalls

\* Spec: the two Transits of the race, the writes delivered per link end
VARIABLES tr, got

\* SpecEnd: a Connection in "records", its peer, the bytes in flight to it, how it ended
VARIABLES ec, ep, ewire, eend

\* SpecDial: one Transit and its hints, the reactor's clock, the delay of the relay dials, the log of the dials
VARIABLES dt, dhints, dnow, ddue, dlog

\* SpecTimer: one Connection and its owner, the bytes its peer will send, the clock, when the inactivity timer is due, the log of the moments
VARIABLES tc, to, tin, tnow, tdue, tlog

\* SpecShake: one Connection and its owner, the bytes its peer will send, the bytes delivered so far
VARIABLES hc, ho, hin, hgot

arbVars == <<arb, timer, ran, hist>>

keyVars == <<ks, registered>>

recVars == <<sc, rc, wire, sent, injected>>

readyVars == <<ro, rconn, rin, rcalls>>

raceVars == <<tr, got>>

endVars == <<ec, ep, ewire, eend>>

dialVars == <<dt, dhints, dnow, ddue, dlog>>

timerVars == <<tc, to, tin, tnow, tdue, tlog>>

shakeVars == <<hc, ho, hin, hgot>>

vars == <<arbVars, keyVars, recVars, readyVars, raceVars, endVars, dialVars, timerVars, shakeVars>>

ArbOnly == UNCHANGED <<keyVars, recVars, readyVars, raceVars, endVars, dialVars, timerVars, shakeVars>>

KeyOnly == UNCHANGED <<arbVars, recVars, readyVars, raceVars, endVars, dialVars, timerVars, shakeVars>>

RecOnly == UNCHANGED <<arbVars, keyVars, readyVars, raceVars, endVars, dialVars, timerVars, shakeVars>>

ReadyOnly == UNCHANGED <<arbVars, keyVars, recVars, raceVars, endVars, dialVars, timerVars, shakeVars>>

RaceOnly == UNCHANGED <<arbVars, keyVars, recVars, readyVars, endVars, dialVars, timerVars, shakeVars>>

EndOnly == UNCHANGED <<arbVars, keyVars, recVars, readyVars, raceVars, dialVars, timerVars, shakeVars>>

DialOnly == UNCHANGED <<arbVars, keyVars, recVars, readyVars, raceVars, endVars, timerVars, shakeVars>>

TimerOnly == UNCHANGED <<arbVars, keyVars, recVars, readyVars, raceVars, endVars, dialVars, shakeVars>>

ShakeOnly == UNCHANGED <<arbVars, keyVars, recVars, readyVars, raceVars, endVars, dialVars, timerVars>>

----------------------------------------------------------------------------
(* SpecArb: _connect's last two lines, there_can_be_only_one(contenders)   *)
(* under _not_forever(2*TIMEOUT, winner), over the listener's Deferred     *)
(* (which an inbound connection may fire before connect() is called) and   *)
(* MaxDials dial Deferreds.  The Deferred connect() returned is chained to *)
(* the summary, so its result is arb.winner_d.  hist logs what happened to *)
(* the contenders and who was pending just before.                         *)

Dials == {"dial" \o ToString(i) : i \in 1..MaxDials}

Contenders == {"lis"} \cup Dials

\* what a cancelled contender fails with: CancelledError for the listener
\* and for a dial that is negotiating, ConnectingCancelledError for a dial
\* that is still connecting
Cancellations == {"CancelledError", "ConnectingCancelledError"}

CancelFailures ==
    {ce \in [Contenders -> Cancellations] : ce["lis"] = "CancelledError"}

ValueOf(d) == "conn:" \o d

FailureOf(d) == "Failure:" \o d

PendingIn(a) == {d \in DOMAIN a.ds : a.ds[d].st = "pending"}

Event(ev, d, v) == [ev |-> ev, d |-> d, v |-> v, pending |-> PendingIn(arb)]

ArbInit ==
    /\ arb = NewArbiter([d \in Contenders |-> Pending])
    /\ timer = FALSE
    /\ ran = FALSE
    /\ hist = <<>>

\* an inbound connection wins before connect() is called
ArbListenerEarly ==
    /\ ~ran
    /\ arb.ds["lis"].st = "pending"
    /\ \E order \in Orders(Contenders), ce \in CancelFailures :
         arb' = contender_callback(arb, "lis", ValueOf("lis"), order, ce)
    /\ hist' = Append(hist, Event("ok", "lis", ValueOf("lis")))
    /\ UNCHANGED <<timer, ran>>
    /\ ArbOnly

ArbRun ==
    /\ ~ran
    /\ \E order \in Orders(Contenders), ce \in CancelFailures :
         arb' = there_can_be_only_one(arb, Contenders, order, ce)
    /\ timer' = _not_forever(arb')
    /\ ran' = TRUE
    /\ UNCHANGED hist
    /\ ArbOnly

ArbSucceed(d) ==
    /\ ran
    /\ arb.ds[d].st = "pending"
    /\ \E order \in Orders(Contenders), ce \in CancelFailures :
         arb' = contender_callback(arb, d, ValueOf(d), order, ce)
    /\ timer' = _done(timer, arb')
    /\ hist' = Append(hist, Event("ok", d, ValueOf(d)))
    /\ UNCHANGED ran
    /\ ArbOnly

ArbFail(d) ==
    /\ ran
    /\ arb.ds[d].st = "pending"
    /\ arb' = contender_errback(arb, d, FailureOf(d))
    /\ timer' = _done(timer, arb')
    /\ hist' = Append(hist, Event("err", d, FailureOf(d)))
    /\ UNCHANGED ran
    /\ ArbOnly

\* the call _not_forever scheduled: d.cancel after 2*TIMEOUT
ArbDeadline ==
    /\ timer
    /\ \E order \in Orders(Contenders), ce \in CancelFailures :
         arb' = ThereCanBeOnlyOne_cancel(arb, order, ce)
    /\ timer' = FALSE
    /\ hist' = Append(hist, Event("deadline", "", ""))
    /\ UNCHANGED ran
    /\ ArbOnly

\* the caller cancels the Deferred connect() returned
ArbCancelConnect ==
    /\ ran
    /\ arb.winner_d.st = "pending"
    /\ \E order \in Orders(Contenders), ce \in CancelFailures :
         arb' = ThereCanBeOnlyOne_cancel(arb, order, ce)
    /\ timer' = _done(timer, arb')
    /\ hist' = Append(hist, Event("cancel", "", ""))
    /\ UNCHANGED ran
    /\ ArbOnly

ArbNext ==
    \/ ArbListenerEarly
    \/ ArbRun
    \/ \E d \in Contenders : ArbSucceed(d)
    \/ \E d \in Contenders : ArbFail(d)
    \/ ArbDeadline
    \/ ArbCancelConnect

Settled(a) == \A d \in DOMAIN a.ds : a.ds[d].st # "pending"

Successes == SelectSeq(hist, LAMBDA h : h.ev = "ok")

OnlyFailures == \A i \in DOMAIN hist : hist[i].ev = "err"

\* C3: once run() has been called and a contender has succeeded, the summary
\* has fired with the value of the first contender that succeeded, no other
\* contender has succeeded, none is pending, and every contender that was
\* pending when the first one succeeded has been cancelled; failures recorded
\* before the success change nothing.
C3_FirstSuccessWins ==
    (ran /\ Successes # <<>>) =>
        /\ arb.winner_d = Fired(Successes[1].v)
        /\ arb.nfire = 1
        /\ Len(Successes) = 1
        /\ Settled(arb)
        /\ \A d \in Successes[1].pending \ {Successes[1].d} :
             arb.ds[d].st = "err" /\ arb.ds[d].v \in Cancellations

\* C3 happens: a dial failed, then another contender succeeded while a third
\* was still pending, and the summary has fired.
C3_Witness ==
    /\ ran
    /\ Len(hist) = 2
    /\ hist[1].ev = "err"
    /\ hist[2].ev = "ok"
    /\ hist[2].pending \ {hist[2].d} # {}
    /\ arb.winner_d.st = "ok"

\* C4: while only failures have happened, the summary stays pending until
\* the last contender has failed, and then has failed, once, with the
\* failure of the contender that failed first.
C4_AllFailFirstFailure ==
    (ran /\ OnlyFailures) =>
        IF Settled(arb)
        THEN arb.winner_d = Failed(hist[1].v) /\ arb.nfire = 1
        ELSE arb.winner_d = Pending /\ arb.nfire = 0

\* C4 happens: every contender has failed by itself.
C4_Witness ==
    /\ ran
    /\ OnlyFailures
    /\ Len(hist) = Cardinality(Contenders)
    /\ arb.winner_d.st = "err"

\* C5 as claimed: after the deadline has fired, the Deferred of connect()
\* has failed with CancelledError, whatever had failed before, and every
\* contender that was pending has been cancelled.
C5_DeadlineGivesCancelled ==
    \A i \in DOMAIN hist :
        hist[i].ev = "deadline" =>
            /\ arb.winner_d = Failed("CancelledError")
            /\ \A d \in hist[i].pending :
                 arb.ds[d].st = "err" /\ arb.ds[d].v \in Cancellations

\* C5: after the deadline has fired, every contender that was pending has
\* been cancelled, the timer is spent, and the Deferred of connect() has
\* failed, once, with the first failure the arbiter recorded: that of the
\* contender that had failed first if one had, else the failure one of the
\* cancelled contenders was left with (CancelledError, or
\* ConnectingCancelledError for a dial still connecting).
C5_DeadlineGivesFirstFailure ==
    \A i \in DOMAIN hist :
        hist[i].ev = "deadline" =>
            /\ arb.winner_d.st = "err"
            /\ arb.winner_d.v \in IF i > 1 THEN {hist[1].v}
                                  ELSE {arb.ds[d].v : d \in hist[i].pending}
            /\ arb.nfire = 1
            /\ ~timer
            /\ Settled(arb)
            /\ \A d \in hist[i].pending :
                 arb.ds[d].st = "err" /\ arb.ds[d].v \in Cancellations

\* C5 happens: the deadline fired after one contender had failed and while
\* others were pending.
C5_Witness ==
    \E i \in DOMAIN hist :
        /\ hist[i].ev = "deadline"
        /\ i > 1
        /\ hist[i].pending # {}

----------------------------------------------------------------------------
(* SpecKey: MaxCallers callers of connect() on one Transit, one call of    *)
(* set_transit_key, and callers that cancel while they wait for the key.   *)
(* registered logs the callers in the order they called connect(), and    *)
(* whether the call was parked.                                            *)

Callers == 1..MaxCallers

KeyInit ==
    /\ ks = NewKeyState(Callers)
    /\ registered = <<>>

KeyConnect(i) ==
    /\ ks.kd[i].st = "none"
    /\ ks' = connect(ks, i)
    /\ registered' = Append(registered, [caller |-> i, parked |-> ks.key = NoKey])
    /\ KeyOnly

KeySetTransitKey ==
    /\ ks.key = NoKey
    /\ ks' = set_transit_key(ks, TheKey)
    /\ UNCHANGED registered
    /\ KeyOnly

KeyCancel(i) ==
    /\ ks.kd[i].st = "pending"
    /\ ks' = Deferred_cancel(ks, i)
    /\ UNCHANGED registered
    /\ KeyOnly

KeyNext ==
    \/ \E i \in Callers : KeyConnect(i)
    \/ KeySetTransitKey
    \/ \E i \in Callers : KeyCancel(i)

CancelledWaiting == {i \in Callers : ks.kd[i].st = "err"}

StartedCallers == [n \in DOMAIN ks.started |-> ks.started[n].caller]

NotCancelled == SelectSeq(registered, LAMBDA r : r.caller \notin CancelledWaiting)

\* C9: no _connect runs (so no dial starts) while the key is unset; once it
\* is set no caller is parked, and _connect has run exactly for the callers
\* that were not cancelled while parked, in the order they called connect(),
\* each finding the key: the parked ones inside set_transit_key, a later one
\* inside its own connect().
C9_KeyThenConnectInOrder ==
    /\ ks.raised = None
    /\ ks.key = NoKey => ks.started = <<>>
    /\ ks.key # NoKey =>
         /\ ks.waiting = <<>>
         /\ \A i \in Callers : ks.kd[i].st # "pending"
         /\ StartedCallers = [n \in DOMAIN NotCancelled |-> NotCancelled[n].caller]
         /\ \A n \in DOMAIN ks.started : ks.started[n].key = ks.key

\* C9 happens: set_transit_key has resumed two parked callers, and a third
\* has called connect() after it.
C9_Witness ==
    /\ ks.key # NoKey
    /\ Len(ks.started) = 3
    /\ registered[1].parked /\ registered[2].parked /\ ~registered[3].parked

\* C10: a connect() cancelled while it waited for the key has failed with
\* CancelledError and stays so; set_transit_key, before or after, raises
\* nothing and never runs _connect for it.
C10_CancelledWhileWaiting ==
    \A i \in Callers :
        ks.kd[i].st = "err" =>
            /\ ks.kd[i].v = "CancelledError"
            /\ ks.raised = None
            /\ \A n \in DOMAIN ks.started : ks.started[n].caller # i

\* C10 happens: set_transit_key has run after a parked connect() was
\* cancelled, and has resumed another caller.
C10_Witness ==
    /\ ks.key # NoKey
    /\ CancelledWaiting # {}
    /\ \E i \in CancelledWaiting : ~ks.kd[i].suppress
    /\ ks.started # <<>>

----------------------------------------------------------------------------
(* SpecRec: records from one end of an established connection to the       *)
(* other.  sc is the sending Connection, rc the receiving one; either may  *)
(* be the sender's.  wire holds the bytes written and not yet delivered;   *)
(* the network delivers them in order, in chunks of any size, and may      *)
(* append a frame sealed by the sending side whose nonce is out of turn    *)
(* (a replayed or an early frame).  sent logs the records passed to        *)
(* send_record; sc.out keeps every write.                                  *)

OwnerWithKey(is_sender) == [NewOwner(is_sender) EXCEPT !.key = TheKey]

\* a Connection after its handshake: the peer's handshake has arrived, and
\* the sender's "go" at the receiver's end
Established(id, is_sender) ==
    LET o == OwnerWithKey(is_sender)
        s == startNegotiation(connectionMade(NewConnection(id, <<>>)), o, "peer")
        r == dataReceived(s.c, s.o,
                          IF is_sender THEN _expect_this(o)
                          ELSE _expect_this(o) \o GO)
    IN  [r.c EXCEPT !.out = <<>>]

\* the records the application may send as its k-th
Payloads(k) == {<<k>>, <<k, k>>}

\* the records handed to the application, in order
RECURSIVE FiredReads(_)
FiredReads(reads) ==
    IF reads = <<>> THEN <<>>
    ELSE (IF reads[1].st = "ok" THEN <<reads[1].rec>> ELSE <<>>)
         \o FiredReads(Tail(reads))

Delivered(c) == FiredReads(c.reads) \o c.inbound_records \o c.consumed

RecInit ==
    /\ \E is_sender \in BOOLEAN :
         /\ sc = Established("A", is_sender)
         /\ rc = Established("B", ~is_sender)
    /\ wire = <<>>
    /\ sent = <<>>
    /\ injected = 0

RecSend ==
    /\ Len(sent) < MaxRecords
    /\ \E m \in Payloads(Len(sent) + 1) :
         /\ sc' = send_record(sc, m)
         /\ sent' = Append(sent, m)
    /\ wire' = wire \o Flatten(SubSeq(sc'.out, Len(sc.out) + 1, Len(sc'.out)))
    /\ UNCHANGED <<rc, injected>>
    /\ RecOnly

\* the transport reads n bytes and calls dataReceived
RecDeliver ==
    /\ ~rc.closed /\ ~rc.lost
    /\ \E n \in 1..Len(wire) :
         /\ rc' = dataReceived(rc, OwnerWithKey(rc.send_key = HKDF(TheKey, "transit_record_sender_key")),
                               Take(wire, n)).c
         /\ wire' = Drop(wire, n)
    /\ UNCHANGED <<sc, sent, injected>>
    /\ RecOnly

RecReceive ==
    /\ Len(rc.reads) < MaxReads
    /\ rc' = receive_record(rc)
    /\ UNCHANGED <<sc, wire, sent, injected>>
    /\ RecOnly

\* a frame of the sending side with nonce n arrives out of turn
RecInject ==
    /\ injected < MaxInjected
    /\ \E n \in 0..MaxRecords :
         /\ n # Len(sent)
         /\ LET encrypted == SecretBox_encrypt(sc.send_key, <<n + 1>>,
                                               BytesOf(n, NONCE_SIZE))
            IN wire' = wire \o BytesOf(Len(encrypted), LENGTH_SIZE) \o encrypted
    /\ injected' = injected + 1
    /\ UNCHANGED <<sc, rc, sent>>
    /\ RecOnly

\* the application attaches a consumer to the receiving side
RecConnectConsumer ==
    /\ ~rc.consumer
    /\ rc' = connectConsumer(rc).c
    /\ UNCHANGED <<sc, wire, sent, injected>>
    /\ RecOnly

RecNext ==
    \/ RecSend
    \/ RecDeliver
    \/ RecReceive
    \/ RecInject
    \/ RecConnectConsumer

\* C6: the k-th frame written carries its own length and nonce k-1; and
\* when the network has delivered every byte sent, unmodified, the k-th
\* receive_record() has fired with the k-th record sent, whatever the order
\* of the calls and the arrivals, and a call beyond the records sent waits.
C6_RecordsRoundTrip ==
    /\ \A k \in 1..Len(sent) :
         /\ IntOf(sc.out[2 * k - 1]) = Len(sc.out[2 * k])
         /\ IntOf(Take(sc.out[2 * k], NONCE_SIZE)) = k - 1
    /\ (injected = 0 /\ wire = <<>>) =>
         \A i \in DOMAIN rc.reads :
             rc.reads[i] = IF i <= Len(sent) THEN ReadFired(sent[i]) ELSE ReadPending

\* C7: the records handed over are always the first records sent, in order:
\* a frame whose nonce is out of turn is never among them.  Once such a
\* frame has been read, the Connection has failed with BadNonce, is in
\* "hung up" with its socket closed, and what had been handed over is what
\* had arrived in turn.
C7_BadNonceHangsUp ==
    /\ Delivered(rc) = Take(sent, Len(Delivered(rc)))
    /\ Len(Delivered(rc)) = rc.next_receive_nonce
    /\ rc.error = "BadNonce" =>
         /\ rc.state = "hung up"
         /\ rc.closed
         /\ injected > 0
    /\ rc.error # "BadNonce" => rc.state = "records" /\ ~rc.closed

\* C7 happens: records arrived in turn and were handed over, then a frame
\* out of turn was read, and a read is still waiting.
C7_Witness ==
    /\ rc.error = "BadNonce"
    /\ Len(Delivered(rc)) = 1
    /\ rc.waiting_reads # <<>>

\* C16 as claimed: whenever the receiving Connection is in "records" and
\* dataReceived has returned, its buffer holds no complete record (a length
\* prefix followed by at least that many bytes).
C16_BufferDrained ==
    rc.state = "records" =>
      ~(/\ Len(rc.buf) >= LENGTH_SIZE
        /\ Len(rc.buf) >= LENGTH_SIZE + IntOf(Take(rc.buf, LENGTH_SIZE)))

----------------------------------------------------------------------------
(* SpecReady: the Connections of one Transit finishing their handshakes in *)
(* any order.  ro is the Transit (its key is set), rconn its Connections,  *)
(* one inbound and two outbound, rin the bytes each peer has sent and the  *)
(* network has not yet delivered, rcalls the log of what connection_ready  *)
(* answered, in the order of the calls.  The peer of a Connection answers  *)
(* with its own handshake; the peer of a receiver's Connection is a sender *)
(* and follows it with its decision.                                       *)

Conns == {"in1", "out1", "out2"}

\* describePeer(addr) for an inbound Connection, "->%s" % hint for a dial
DescriptionOf(p) == IF p = "in1" THEN "<-" \o p ELSE "->" \o p

ReadyInit ==
    /\ \E is_sender \in BOOLEAN : ro = OwnerWithKey(is_sender)
    /\ rconn = [p \in Conns |-> NewConnection(p, <<>>)]
    /\ rin = [p \in Conns |-> <<>>]
    /\ rcalls = <<>>

\* the socket of p is established: connectionMade, then startNegotiation
ReadyMade(p) ==
    /\ rconn[p].state = "too-early"
    /\ LET r == startNegotiation(connectionMade(rconn[p]), ro, DescriptionOf(p))
       IN  /\ rconn' = [rconn EXCEPT ![p] = r.c]
           /\ ro' = r.o
    /\ \E decision \in {GO, NEVERMIND} :
         rin' = [rin EXCEPT ![p] = _expect_this(ro)
                                   \o (IF ro.is_sender THEN <<>> ELSE decision)]
    /\ UNCHANGED rcalls
    /\ ReadyOnly

\* the transport of p reads the next n bytes
ReadyDeliver(p) ==
    /\ rconn[p].state # "too-early"
    /\ ~rconn[p].closed /\ ~rconn[p].lost
    /\ \E n \in 1..Len(rin[p]) :
         LET r == dataReceived(rconn[p], ro, Take(rin[p], n))
         IN  /\ rconn' = [rconn EXCEPT ![p] = r.c]
             /\ ro' = r.o
             /\ rin' = [rin EXCEPT ![p] = Drop(@, n)]
             /\ rcalls' = IF r.ready = None THEN rcalls
                          ELSE Append(rcalls, [p |-> p, state |-> r.ready])
    /\ ReadyOnly

ReadyNext ==
    \/ \E p \in Conns : ReadyMade(p)
    \/ \E p \in Conns : ReadyDeliver(p)

\* C1: on a sender, connection_ready answers "go" to the first Connection
\* whose peer handshake was validated and "nevermind" to every later one, and
\* the winner is that first Connection from then on; on a receiver it always
\* answers "wait-for-decision" and there is never a winner.  No Connection
\* asks twice.
C1_FirstReadyWins ==
    /\ \A i, j \in DOMAIN rcalls : rcalls[i].p = rcalls[j].p => i = j
    /\ ro.is_sender =>
         /\ \A i \in DOMAIN rcalls :
              rcalls[i].state = IF i = 1 THEN "go" ELSE "nevermind"
         /\ ro.winner = IF rcalls = <<>> THEN None ELSE rcalls[1].p
         /\ ro.winner_description =
              IF rcalls = <<>> THEN None ELSE DescriptionOf(rcalls[1].p)
    /\ ~ro.is_sender =>
         /\ \A i \in DOMAIN rcalls : rcalls[i].state = "wait-for-decision"
         /\ ro.winner = None

\* C1 happens: on a sender all three Connections had their peer's handshake
\* validated, the outbound out2 first; it was told "go" and is in "records",
\* the two later ones were told "nevermind" and are abandoned.
C1_Witness ==
    /\ ro.is_sender
    /\ Len(rcalls) = 3
    /\ rcalls[1] = [p |-> "out2", state |-> "go"]
    /\ rcalls[2].state = "nevermind" /\ rcalls[3].state = "nevermind"
    /\ rconn["out2"].state = "records"
    /\ \A p \in {"in1", "out1"} :
         /\ rconn[p].error = "BadHandshake(abandoned)"
         /\ rconn[p].out[Len(rconn[p].out)] = NEVERMIND

----------------------------------------------------------------------------
(* A Transit in the race.  A sender "S" and a receiver "R" each listen and *)
(* dial the other: link L1 is S's dial, accepted by R's listener, link L2  *)
(* is R's dial, accepted by S's listener.  A Transit is a record t: side,  *)
(* own (the fields a Connection asks for), ks (the key and the connect()   *)
(* call), conn (per link, its Connection at this end), dial (per dialled   *)
(* link: "idle", "delayed" (a relay dial waiting for its deferLater),      *)
(* "connecting", "made", "failed" or "cancelled"), relay (the dialled      *)
(* links that go through a relay), a (the arbiter, holding the listener's  *)
(* Deferred as contender "lis" and each dial's under the link's name) and  *)
(* timer (the call _not_forever made).                                     *)

Sides == {"S", "R"}

\* L1 is the socket from the sender to the receiver's listener, L2 the one
\* from the receiver to the sender's listener, LR each side's socket to the
\* relay
Links == {"L1", "L2", "LR"}

DirectLinks == {"L1", "L2"}

Dialer(l) == IF l = "L1" THEN "S" ELSE "R"

Peer(s) == IF s = "S" THEN "R" ELSE "S"

Acceptor(l) == Peer(Dialer(l))

DialsOf(s) == {l \in DirectLinks : Dialer(l) = s}

\* what _endpoint_from_hint returns for a hint it skips: None, the one
\* result that `if not ep` takes for false
NoEndpoint == [none |-> TRUE, host |-> <<>>, port |-> 0]

\* the hint of the listener that accepts link l, "tcp:L1:1" or "tcp:L2:2",
\* and the link as the name of its dial
LinkHint(l) ==
    [name |-> l,
     hint |-> IF l = "L1" THEN <<116, 99, 112, 58, 76, 49, 58, 49>>
              ELSE <<116, 99, 112, 58, 76, 50, 58, 50>>]

\* the hint of the relay, "tcp:LR:3", and the link as the name of its dial
RelayHint == [name |-> "LR", hint |-> <<116, 99, 112, 58, 76, 82, 58, 51>>]

\* list(self._their_direct_hints) of t: the hint its peer gave it
TheirDirectHints(t) ==
    IF DOMAIN t.dial \subseteq t.relay THEN <<>>
    ELSE <<LinkHint(CHOOSE l \in DOMAIN t.dial : l \notin t.relay)>>

\* list(self._their_relay_hints) of t
TheirRelayHints(t) == IF t.relay = {} THEN <<>> ELSE <<RelayHint>>

\* "->%s" % hint for a dial, "->relay:%s" % hint for a relay dial,
\* describePeer(addr) for an inbound Connection, with the name of the dial
\* or of the inbound socket for the hint or the address
Description(t, l) ==
    IF l \in t.relay THEN "->relay:" \o l
    ELSE IF l \in DOMAIN t.dial THEN "->" \o l ELSE "<-" \o l

\* the one connect() call each Transit of the race gets
TheCaller == 1

\* a Transit with its listener started whose peer's direct hints lead to
\* the links direct and whose relay hints to the links relay
NewTransit(s, direct, relay) ==
    [side |-> s,
     own |-> NewOwner(s = "S"),
     ks |-> NewKeyState({TheCaller}),
     conn |-> [l \in Links |-> NewConnection(s \o "." \o l, <<>>)],
     dial |-> [l \in direct \cup relay |-> "idle"],
     endpoint |-> [l \in direct \cup relay |-> NoEndpoint],
     relay |-> relay,
     a |-> NewArbiter([d \in {"lis"} \cup direct \cup relay |-> Pending]),
     timer |-> FALSE]

\* the failure a contender's own canceller leaves it with: a dial that is
\* still connecting fails with ConnectingCancelledError
CancelErrors(t) ==
    [d \in DOMAIN t.a.ds |->
       IF d # "lis" /\ t.dial[d] = "connecting"
       THEN "ConnectingCancelledError" ELSE "CancelledError"]

\* InboundConnectionFactory._pending_connections, by link
_pending_connections(t) ==
    {l \in DOMAIN t.conn \ DOMAIN t.dial :
       t.conn[l].state # "too-early" /\ t.conn[l].neg.st = "pending"}

\* _shutdown without the loop over the pending connections
_shutdown_nothing(t) == t

\* InboundConnectionFactory._shutdown
_shutdown(t) ==
    [t EXCEPT !.conn = [l \in DOMAIN t.conn |->
                          IF l \in _pending_connections(t)
                          THEN cancel_negotiation(t.conn[l]) ELSE t.conn[l]]]

\* the arbiter went from t.a to a2 and cancelled contenders on the way: the
\* listener's canceller is InboundConnectionFactory._cancel, a connecting
\* dial is given up, a relay dial that is still delayed has its deferLater
\* call cancelled, a dial that is negotiating has its negotiation cancelled
contenders_cancelled(t, a2) ==
    LET gone == {d \in DOMAIN t.a.ds :
                   t.a.ds[d].st = "pending" /\ a2.ds[d].st = "err"}
        t1 == IF "lis" \in gone THEN _shutdown(t) ELSE t
    IN  [t1 EXCEPT
           !.a = a2,
           !.dial = [l \in DOMAIN t.dial |->
                       IF l \in gone /\ t.dial[l] \in {"connecting", "delayed"}
                       THEN "cancelled" ELSE t.dial[l]],
           !.conn = [l \in DOMAIN t.conn |->
                       IF l \in gone /\ l \in DOMAIN t.dial /\ t.dial[l] = "made"
                       THEN cancel_negotiation(t1.conn[l]) ELSE t1.conn[l]]]

\* the Deferred startNegotiation returned for link l fired with the
\* Connection: a dial's is a contender; an inbound one's callback is
\* InboundConnectionFactory._proto_succeeded
negotiation_succeeded(t, l, order) ==
    LET p == t.conn[l].id
        t1 == IF l \in DOMAIN t.dial THEN t ELSE _shutdown(t)
        d == IF l \in DOMAIN t.dial THEN l ELSE "lis"
    IN  IF t1.a.ds[d].st # "pending" THEN t1
        ELSE LET a2 == contender_callback(t1.a, d, p, order, CancelErrors(t1))
             IN [contenders_cancelled(t1, a2) EXCEPT
                   !.timer = _done(t1.timer, a2)]

\* the same Deferred failed with f: InboundConnectionFactory._proto_failed
\* drops it, a dial's reaches the arbiter
negotiation_failed(t, l, f) ==
    IF l \in DOMAIN t.dial /\ t.a.ds[l].st = "pending"
    THEN LET a2 == contender_errback(t.a, l, f)
         IN [t EXCEPT !.a = a2, !.timer = _done(t.timer, a2)]
    ELSE t

\* A string is the sequence of its characters' code points: "tcp" is
\* <<116, 99, 112>>.

\* hint.split(sep): the pieces of a string between its separators
RECURSIVE split(_, _)
split(s, sep) ==
    IF \A i \in DOMAIN s : s[i] # sep THEN <<s>>
    ELSE LET i == CHOOSE i \in DOMAIN s :
                    s[i] = sep /\ \A j \in 1..(i - 1) : s[j] # sep
         IN  <<SubSeq(s, 1, i - 1)>> \o split(Drop(s, i), sep)

\* the characters int() reads as the digit 0: "0" and the zero of every
\* other run of ten decimal digits of Unicode; the nine characters after
\* each are its 1 to 9
DigitZeros ==
    {48, 1632, 1776, 1984, 2406, 2534, 2662, 2790, 2918, 3046, 3174, 3302,
     3430, 3558, 3664, 3792, 3872, 4160, 4240, 6112, 6160, 6470, 6608,
     6784, 6800, 6992, 7088, 7232, 7248, 42528, 43216, 43264, 43472, 43504,
     43600, 44016, 65296, 66720, 68912, 69734, 69872, 69942, 70096, 70384,
     70736, 70864, 71248, 71360, 71472, 71904, 72016, 72784, 73040, 73120,
     92768, 92864, 93008, 120782, 120792, 120802, 120812, 120822, 123200,
     123632, 125264, 130032}

\* the characters int() strips from both ends: tab, line feed, vertical
\* tab, form feed, carriage return, space, and the other white space of
\* Unicode
Whitespace ==
    {9, 10, 11, 12, 13, 32, 133, 160, 5760} \cup (8192..8202)
      \cup {8232, 8233, 8239, 8287, 12288}

RECURSIVE strip(_)
strip(s) ==
    IF s # <<>> /\ s[1] \in Whitespace THEN strip(Tail(s))
    ELSE IF s # <<>> /\ s[Len(s)] \in Whitespace
    THEN strip(SubSeq(s, 1, Len(s) - 1))
    ELSE s

IsDigit(ch) == \E z \in DigitZeros : z <= ch /\ ch <= z + 9

\* what int() accepts after the sign: digits, single underscores (95)
\* between them, and no more digits than the interpreter's limit for the
\* conversion of a string (sys.get_int_max_str_digits(), 4300)
DecimalLiteral(b) ==
    /\ b # <<>>
    /\ \A i \in DOMAIN b :
         \/ IsDigit(b[i])
         \/ /\ b[i] = 95
            /\ 1 < i /\ i < Len(b)
            /\ IsDigit(b[i - 1]) /\ IsDigit(b[i + 1])
    /\ Cardinality({i \in DOMAIN b : IsDigit(b[i])}) <= 4300

RECURSIVE decimal(_, _)
decimal(b, acc) ==
    IF b = <<>> THEN acc
    ELSE decimal(Tail(b),
                 IF b[1] = 95 THEN acc
                 ELSE 10 * acc + b[1]
                      - (CHOOSE z \in DigitZeros : z <= b[1] /\ b[1] <= z + 9))

\* int() of a stripped string without its sign
unsigned(b, negative) ==
    IF ~DecimalLiteral(b) THEN [v |-> 0, raised |-> "ValueError"]
    ELSE [v |-> IF negative THEN 0 - decimal(b, 0) ELSE decimal(b, 0),
          raised |-> None]

\* int() of a stripped string: one "+" (43) or "-" (45) may lead
signed(t) ==
    IF t # <<>> /\ t[1] \in {43, 45} THEN unsigned(Tail(t), t[1] = 45)
    ELSE unsigned(t, FALSE)

\* int(s) of a string: [v, raised]
int(s) == signed(strip(s))

\* HostnameEndpoint(self._reactor, pieces[1], int(pieces[2])), given what
\* int() returned or raised: any host and any port make an endpoint
HostnameEndpoint(host, port) ==
    IF port.raised # None THEN [ep |-> NoEndpoint, raised |-> port.raised]
    ELSE [ep |-> [none |-> FALSE, host |-> host, port |-> port.v],
          raised |-> None]

\* _endpoint_from_hint once the hint, which has a colon, is split
endpoint_from_pieces(pieces) ==
    IF pieces[1] # <<116, 99, 112>> THEN [ep |-> NoEndpoint, raised |-> None]
    ELSE IF Len(pieces) < 3 THEN [ep |-> NoEndpoint, raised |-> "IndexError"]
    ELSE HostnameEndpoint(pieces[2], int(pieces[3]))

\* [ep, raised]: the HostnameEndpoint of a hint; NoEndpoint for a hint
\* without colon (58) or of another type; pieces[2] of a tcp hint with one
\* colon raises IndexError, int() of a piece that is no number ValueError
_endpoint_from_hint(hint) ==
    IF \A i \in DOMAIN hint : hint[i] # 58
    THEN [ep |-> NoEndpoint, raised |-> None]
    ELSE endpoint_from_pieces(split(hint, 58))

\* one pass of a loop of _connect over h, a hint of the set: h.hint is the
\* string, h.name the name the Transit's dial, contender and Connection for
\* this hint go by (every hint of either set has its own); r is what
\* _endpoint_from_hint gave for it.  m is [t, relay_delay, raised]: an
\* exception ends the call, a hint without endpoint is skipped, a direct
\* hint's endpoint is dialled at once and sets relay_delay, a relay hint's
\* dial is a deferLater call
dial_hint(m, h, r, is_relay) ==
    IF r.raised # None THEN [m EXCEPT !.raised = r.raised]
    ELSE IF r.ep.none THEN m
    ELSE IF is_relay
    THEN [m EXCEPT !.t.dial[h.name] = "delayed", !.t.endpoint[h.name] = r.ep]
    ELSE [m EXCEPT !.t.dial[h.name] = "connecting",
                   !.t.endpoint[h.name] = r.ep,
                   !.relay_delay = RELAY_DELAY]

\* a loop of _connect over the hints in list order, up to one that raises
RECURSIVE dial_each(_, _, _)
dial_each(m, hints, is_relay) ==
    IF hints = <<>> \/ m.raised # None THEN m
    ELSE dial_each(dial_hint(m, hints[1], _endpoint_from_hint(hints[1].hint),
                             is_relay),
                   Tail(hints), is_relay)

\* winner = there_can_be_only_one(contenders);
\* return self._not_forever(2*TIMEOUT, winner)
race(t, a2) == [contenders_cancelled(t, a2) EXCEPT !.timer = _not_forever(a2)]

\* the end of _connect, after the loops: an exception fails the Deferred
\* connect() returned to caller i, with no arbiter and no deadline made
connect_end(m, i, order) ==
    IF m.raised # None
    THEN [m EXCEPT !.t.ks.kd[i] = [st |-> "err", v |-> m.raised,
                                   suppress |-> FALSE]]
    ELSE [m EXCEPT !.t = race(m.t, there_can_be_only_one(
                                     m.t.a, DOMAIN m.t.a.ds, order,
                                     CancelErrors(m.t)))]

\* Common._connect as the callback of the Deferred connect() returned to
\* caller i: [t, relay_delay, raised].  direct and relay are
\* self._their_direct_hints and self._their_relay_hints in the order the
\* loops meet them.  The dials start, then the arbiter and its deadline
_connect(t, i, order, direct, relay) ==
    connect_end(dial_each(dial_each([t |-> t, relay_delay |-> 0,
                                     raised |-> None],
                                    direct, FALSE),
                          relay, TRUE),
                i, order)

\* the result of the Deferred connect() returned to caller i
connect_result(t, i) ==
    CASE t.ks.kd[i].st = "chained" -> t.a.winner_d
      [] t.ks.kd[i].st = "err" -> Failed(t.ks.kd[i].v)
      [] OTHER -> Pending

\* _connect has run for the connect() call
Racing(t) == t.ks.started # <<>>

\* the connect() call of t has succeeded, with Connection t.a.winner_d.v
Succeeded(t) == Racing(t) /\ t.a.winner_d.st = "ok"

\* socket l of t is established: connectionMade; the inbound factory's
\* connectionWasMade, or the dial's callback, calls startNegotiation
connection_made(t, l) ==
    LET r == startNegotiation(connectionMade(t.conn[l]), t.own,
                              Description(t, l))
    IN  [t EXCEPT !.conn[l] = r.c, !.own = r.o]

----------------------------------------------------------------------------
(* Spec: the race between a sender and a receiver.  tr holds the two       *)
(* Transits, each with its listener started (get_direct_hints was called)  *)
(* and the other's hints added: either each side has the direct hint of    *)
(* the other's listener and no relay hint, or both have the hint of one    *)
(* relay and the sender alone has a direct hint.  got counts, per end of a *)
(* link, the writes of the far end that were delivered.  The two ends of a *)
(* direct link are made by separate steps: the dial's callback at the      *)
(* dialer, the listener's connectionWasMade at the acceptor, in either     *)
(* order or one alone.  The relay, once both sides have asked it with the  *)
(* same relay handshake, answers both with "ok" and passes on what each    *)
(* writes after.  Timers are untimed: a timer that is pending, or a        *)
(* delayed call, may fire at any moment.                                   *)

RaceInit ==
    /\ \E relayed \in BOOLEAN :
         tr = [s \in Sides |->
                 IF relayed
                 THEN NewTransit(s, DialsOf(s) \cap {"L1"}, {"LR"})
                 ELSE NewTransit(s, DialsOf(s), {})]
    /\ got = [s \in Sides |-> [l \in Links |-> 0]]

\* what the far end of link l has written for s to read: on a direct link
\* the writes of the peer's Connection; through the relay "ok" and the
\* peer's writes after its relay handshake, once both have sent theirs
FarOut(s, l) ==
    IF l \in DirectLinks THEN tr[Peer(s)].conn[l].out
    ELSE IF tr[s].conn[l].out = <<>> \/ tr[Peer(s)].conn[l].out = <<>> THEN <<>>
    ELSE <<OK_>> \o Tail(tr[Peer(s)].conn[l].out)

SetTransitKey(s) ==
    /\ tr[s].ks.key = NoKey
    /\ \E order \in Orders(DOMAIN tr[s].a.ds) :
         LET w == set_transit_key(tr[s].ks, TheKey)
             t1 == [tr[s] EXCEPT !.ks = w, !.own.key = w.key]
         IN  tr' = [tr EXCEPT ![s] = IF Racing(t1)
                                     THEN _connect(t1, TheCaller, order,
                                                   TheirDirectHints(t1),
                                                   TheirRelayHints(t1)).t
                                     ELSE t1]
    /\ UNCHANGED got
    /\ RaceOnly

Connect(s) ==
    /\ tr[s].ks.kd[TheCaller].st = "none"
    /\ \E order \in Orders(DOMAIN tr[s].a.ds) :
         LET t1 == [tr[s] EXCEPT !.ks = connect(tr[s].ks, TheCaller)]
         IN  tr' = [tr EXCEPT ![s] = IF Racing(t1)
                                     THEN _connect(t1, TheCaller, order,
                                                   TheirDirectHints(t1),
                                                   TheirRelayHints(t1)).t
                                     ELSE t1]
    /\ UNCHANGED got
    /\ RaceOnly

\* the dial of link l connects: the dialer's reactor fires the Deferred of
\* ep.connect(f) with the protocol
LinkDialled(l) ==
    /\ l \in DOMAIN tr[Dialer(l)].dial
    /\ tr[Dialer(l)].dial[l] = "connecting"
    /\ tr' = [tr EXCEPT
                ![Dialer(l)] = [connection_made(@, l) EXCEPT !.dial[l] = "made"]]
    /\ UNCHANGED got
    /\ RaceOnly

\* the far listener, still listening, accepts the socket of link l: its
\* reactor may do so before or after the dialer's has fired the dial, and
\* also when the dialer has given the dial up by then
LinkAccepted(l) ==
    /\ l \in DOMAIN tr[Dialer(l)].dial
    /\ tr[Dialer(l)].dial[l] \in {"connecting", "made", "cancelled"}
    /\ tr[Acceptor(l)].a.ds["lis"].st = "pending"
    /\ tr[Acceptor(l)].conn[l].state = "too-early"
    /\ tr' = [tr EXCEPT ![Acceptor(l)] = connection_made(@, l)]
    /\ UNCHANGED got
    /\ RaceOnly

\* the dial of link l fails: refused, unreachable
DialFails(l) ==
    /\ l \in DOMAIN tr[Dialer(l)].dial
    /\ tr[Dialer(l)].dial[l] = "connecting"
    /\ tr' = [tr EXCEPT ![Dialer(l)] =
                negotiation_failed([@ EXCEPT !.dial[l] = "failed"], l,
                                   "ConnectError")]
    /\ UNCHANGED got
    /\ RaceOnly

\* the call deferLater scheduled for the relay hint of s: _start_connector
\* makes the factory with the relay handshake of the key and dials
RelayStart(s) ==
    /\ "LR" \in DOMAIN tr[s].dial
    /\ tr[s].dial["LR"] = "delayed"
    /\ tr' = [tr EXCEPT
                ![s].dial["LR"] = "connecting",
                ![s].conn["LR"].relay_handshake =
                   build_relay_handshake(tr[s].ks.key)]
    /\ UNCHANGED got
    /\ RaceOnly

\* the dial of s to the relay connects
RelayDialled(s) ==
    /\ "LR" \in DOMAIN tr[s].dial
    /\ tr[s].dial["LR"] = "connecting"
    /\ tr' = [tr EXCEPT
                ![s] = [connection_made(@, "LR") EXCEPT !.dial["LR"] = "made"]]
    /\ UNCHANGED got
    /\ RaceOnly

\* the dial of s to the relay fails: refused, unreachable
RelayFails(s) ==
    /\ "LR" \in DOMAIN tr[s].dial
    /\ tr[s].dial["LR"] = "connecting"
    /\ tr' = [tr EXCEPT ![s] =
                negotiation_failed([@ EXCEPT !.dial["LR"] = "failed"], "LR",
                                   "ConnectError")]
    /\ UNCHANGED got
    /\ RaceOnly

\* the transport of s on link l reads the next n writes of the far end
Deliver(s, l) ==
    LET c == tr[s].conn[l]
        far == FarOut(s, l)
    IN  /\ c.state # "too-early"
        /\ ~c.closed /\ ~c.lost
        /\ \E n \in 1..(Len(far) - got[s][l]) :
           \E order \in Orders(DOMAIN tr[s].a.ds) :
             LET r == dataReceived(c, tr[s].own,
                                   Flatten(SubSeq(far, got[s][l] + 1, got[s][l] + n)))
                 t1 == [tr[s] EXCEPT !.conn[l] = r.c, !.own = r.o]
             IN  /\ tr' = [tr EXCEPT ![s] =
                             IF c.neg.st = "pending" /\ r.c.neg.st = "ok"
                             THEN negotiation_succeeded(t1, l, order) ELSE t1]
                 /\ got' = [got EXCEPT ![s][l] = @ + n]
    /\ RaceOnly

\* the inactivity timer of a Connection fires
Timeout(s, l) ==
    /\ tr[s].conn[l].timer
    /\ tr' = [tr EXCEPT ![s].conn[l] = timeoutConnection(@)]
    /\ UNCHANGED got
    /\ RaceOnly

\* the socket of s on link l is gone: closed by this end, by the far end,
\* or broken
ConnectionLost(s, l) ==
    LET c == tr[s].conn[l]
        c2 == connectionLost(c)
        t1 == [tr[s] EXCEPT !.conn[l] = c2]
    IN  /\ c.state # "too-early"
        /\ ~c.lost
        /\ tr' = [tr EXCEPT ![s] =
                    IF c.neg.st = "pending" /\ c2.neg.st = "err"
                    THEN negotiation_failed(t1, l, c2.neg.v) ELSE t1]
        /\ UNCHANGED got
    /\ RaceOnly

\* the call _not_forever scheduled: d.cancel after 2*TIMEOUT
Deadline(s) ==
    /\ tr[s].timer
    /\ \E order \in Orders(DOMAIN tr[s].a.ds) :
         LET a2 == ThereCanBeOnlyOne_cancel(tr[s].a, order, CancelErrors(tr[s]))
         IN  tr' = [tr EXCEPT ![s] =
                      [contenders_cancelled(@, a2) EXCEPT !.timer = FALSE]]
    /\ UNCHANGED got
    /\ RaceOnly

Next ==
    \/ \E s \in Sides : SetTransitKey(s)
    \/ \E s \in Sides : Connect(s)
    \/ \E l \in DirectLinks : LinkDialled(l)
    \/ \E l \in DirectLinks : LinkAccepted(l)
    \/ \E l \in DirectLinks : DialFails(l)
    \/ \E s \in Sides : RelayStart(s)
    \/ \E s \in Sides : RelayDialled(s)
    \/ \E s \in Sides : RelayFails(s)
    \/ \E s \in Sides, l \in Links : Deliver(s, l)
    \/ \E s \in Sides, l \in Links : Timeout(s, l)
    \/ \E s \in Sides, l \in Links : ConnectionLost(s, l)
    \/ \E s \in Sides : Deadline(s)

Made(c) == c.state # "too-early"

BothSucceeded == \A s \in Sides : Succeeded(tr[s])

\* the links on which the Connection of t reached "records": its
\* negotiation Deferred fires only in _negotiationSuccessful
ReachedRecords(t) == {l \in Links : t.conn[l].neg.st = "ok"}

\* the other Connections of t that were established
Losers(t) == {l \in Links : Made(t.conn[l]) /\ t.conn[l].neg.st # "ok"}

\* the Connection of t that p names
ConnOf(t, p) == t.conn[CHOOSE l \in Links : t.conn[l].id = p]

\* C2 as claimed: when connect() has succeeded on both sides, exactly one
\* Connection of each side has reached "records", and every other
\* Connection of the side is in "hung up" with its socket closed, however
\* it lost.
C2_LosersHungUp ==
    BothSucceeded =>
      \A s \in Sides :
        /\ Cardinality(ReachedRecords(tr[s])) = 1
        /\ \A l \in Losers(tr[s]) :
             /\ tr[s].conn[l].state = "hung up"
             /\ tr[s].conn[l].closed \/ tr[s].conn[l].lost

\* C2: when connect() has succeeded on both sides, exactly one Connection
\* of each side has reached "records", the one connect() yielded; every
\* other Connection of the side has failed its negotiation, has its socket
\* closed and is not in "records".  One whose negotiation failed by
\* cancellation or by a handshake error ("nevermind" from the peer
\* included) is in "hung up"; one whose negotiation failed by a far-end
\* close or by the inactivity timeout is still in the state it was in:
\* "relay" (a relay's answer was awaited), "handshake" or
\* "wait-for-decision".
C2_LosersClosed ==
    BothSucceeded =>
      \A s \in Sides :
        /\ ReachedRecords(tr[s]) =
             {l \in Links : tr[s].conn[l].id = tr[s].a.winner_d.v}
        /\ Cardinality(ReachedRecords(tr[s])) = 1
        /\ \A l \in Losers(tr[s]) :
             LET c == tr[s].conn[l]
             IN  /\ c.closed \/ c.lost
                 /\ c.neg.st = "err"
                 /\ c.neg.v \in {"CancelledError", "BadHandshake(got)",
                                 "BadHandshake(abandoned)"}
                      => c.state = "hung up" /\ c.closed
                 /\ c.neg.v \in {"BadHandshake(timeout)",
                                 "BadHandshake(connection lost)"}
                      => /\ c.state \in {"relay", "handshake", "wait-for-decision"}
                         /\ c.state = "relay" => l \in tr[s].relay
                         /\ c.lost
                 /\ c.neg.v \in {"CancelledError", "BadHandshake(got)",
                                 "BadHandshake(abandoned)", "BadHandshake(timeout)",
                                 "BadHandshake(connection lost)"}

\* C2 happens: both connect() calls have succeeded, on link L1; the sender
\* cancelled its Connection to the relay, which is in "hung up", and the
\* receiver's Connection to the relay was timed out while it waited for
\* the relay's answer, and is still in "relay".
C2_Witness ==
    /\ BothSucceeded
    /\ tr["S"].a.winner_d.v = tr["S"].conn["L1"].id
    /\ tr["R"].a.winner_d.v = tr["R"].conn["L1"].id
    /\ tr["S"].conn["LR"].state = "hung up"
    /\ tr["S"].conn["LR"].error = "CancelledError"
    /\ tr["R"].conn["LR"].state = "relay"
    /\ tr["R"].conn["LR"].lost
    /\ tr["R"].conn["LR"].neg = Failed("BadHandshake(timeout)")

\* C8 as claimed: describe() is "not yet established" while the Transit
\* has no winner, and once connect() has succeeded on a Transit, sender or
\* receiver, describe() is the description of the Connection that
\* connect() yielded.
C8_DescribeNamesWinner ==
    \A s \in Sides :
      /\ tr[s].own.winner = None => describe(tr[s].own) = "not yet established"
      /\ Succeeded(tr[s]) =>
           describe(tr[s].own) = ConnOf(tr[s], tr[s].a.winner_d.v).description

----------------------------------------------------------------------------
(* SpecEnd: the end of an established connection.  ec is the Connection,   *)
(* in "records", ep its peer's, ewire the bytes the peer has written that  *)
(* are not yet delivered.  The application calls receive_record() and      *)
(* close(); the socket may be lost at any moment (the far end closes, the  *)
(* transport fails) and is lost after a close().  eend keeps, for the      *)
(* first close() and for connectionLost, the reads issued so far and the   *)
(* reads waiting at that moment, and what the last connectConsumer or      *)
(* disconnectConsumer call raised.  The application may attach a consumer  *)
(* and detach it at any moment.                                            *)

\* the owner of an established Connection, told by its record keys
OwnerOf(c) ==
    OwnerWithKey(c.send_key = HKDF(TheKey, "transit_record_sender_key"))

\* the receive_record() calls whose Deferred is in self._waiting_reads
WaitingReads(c) == {c.waiting_reads[j] : j \in DOMAIN c.waiting_reads}

\* what is remembered of the moment a Connection ended
Moment(c) == [nreads |-> Len(c.reads), waiting |-> WaitingReads(c),
              closed |-> c.closed]

\* the moment has not come
Never == [nreads |-> -1, waiting |-> {}, closed |-> FALSE]

Happened(m) == m.nreads >= 0

EndInit ==
    /\ \E is_sender \in BOOLEAN :
         /\ ec = Established("B", is_sender)
         /\ ep = Established("A", ~is_sender)
    /\ ewire = <<>>
    /\ eend = [close |-> Never, lost |-> Never, raised |-> None]

\* the peer sends its next record
EndSend ==
    /\ ep.send_nonce < MaxRecords
    /\ ep' = send_record(ep, <<ep.send_nonce + 1>>)
    /\ ewire' = ewire \o Flatten(SubSeq(ep'.out, Len(ep.out) + 1, Len(ep'.out)))
    /\ UNCHANGED <<ec, eend>>
    /\ EndOnly

\* the transport reads n bytes and calls dataReceived
EndDeliver ==
    /\ ~ec.closed /\ ~ec.lost
    /\ \E n \in 1..Len(ewire) :
         /\ ec' = dataReceived(ec, OwnerOf(ec), Take(ewire, n)).c
         /\ ewire' = Drop(ewire, n)
    /\ UNCHANGED <<ep, eend>>
    /\ EndOnly

EndReceive ==
    /\ Len(ec.reads) < MaxReads
    /\ ec' = receive_record(ec)
    /\ UNCHANGED <<ep, ewire, eend>>
    /\ EndOnly

\* the application calls close()
EndClose ==
    /\ ~ec.closed
    /\ ec' = close(ec)
    /\ eend' = [eend EXCEPT !.close = Moment(ec)]
    /\ UNCHANGED <<ep, ewire>>
    /\ EndOnly

\* the transport calls connectionLost: after a close(), or because the far
\* end closed or the transport failed
EndLost ==
    /\ ~ec.lost
    /\ ec' = connectionLost(ec)
    /\ eend' = [eend EXCEPT !.lost = Moment(ec)]
    /\ UNCHANGED <<ep, ewire>>
    /\ EndOnly

\* the application calls connectConsumer(consumer)
EndConnectConsumer ==
    /\ LET r == connectConsumer(ec)
       IN  /\ ec' = r.c
           /\ eend' = [eend EXCEPT !.raised = r.raised]
    /\ UNCHANGED <<ep, ewire>>
    /\ EndOnly

\* the application calls disconnectConsumer()
EndDisconnectConsumer ==
    /\ LET r == disconnectConsumer(ec)
       IN  /\ ec' = r.c
           /\ eend' = [eend EXCEPT !.raised = r.raised]
    /\ UNCHANGED <<ep, ewire>>
    /\ EndOnly

EndNext ==
    \/ EndSend
    \/ EndDeliver
    \/ EndReceive
    \/ EndClose
    \/ EndLost
    \/ EndConnectConsumer
    \/ EndDisconnectConsumer

\* C11 as claimed: once the connection was lost without a local close(),
\* every receive_record() that was waiting at that moment has failed with
\* ConnectionClosed.
C11_LossFailsWaitingReads ==
    (Happened(eend.lost) /\ ~eend.lost.closed) =>
      \A i \in eend.lost.waiting : ec.reads[i] = ReadFailed("ConnectionClosed")

\* C12: once close() was called the socket is closed, every receive_record()
\* that was waiting at that moment has failed with ConnectionClosed and stays
\* so, the reads answered before keep their record, and the queue of waiting
\* reads holds only calls made after the close().
C12_CloseFailsWaitingReads ==
    Happened(eend.close) =>
      /\ ec.closed
      /\ \A i \in eend.close.waiting : ec.reads[i] = ReadFailed("ConnectionClosed")
      /\ \A i \in (1..eend.close.nreads) \ eend.close.waiting :
           ec.reads[i].st = "ok"
      /\ \A i \in WaitingReads(ec) : i > eend.close.nreads

\* C12 happens: a record was handed to the first read, the second read was
\* waiting when close() was called and has failed, and the socket is gone.
C12_Witness ==
    /\ Happened(eend.close)
    /\ eend.close.waiting = {2}
    /\ ec.reads[1].st = "ok"
    /\ ec.reads[2] = ReadFailed("ConnectionClosed")
    /\ ec.waiting_reads = <<>>
    /\ ec.lost

----------------------------------------------------------------------------
(* SpecDial: connect() of one Transit over the hints of its peer.  dhints  *)
(* holds the direct and the relay hints added, each hint a string with the *)
(* name of its dial; dt is the Transit, its key set and its listener       *)
(* started, with a Connection per inbound socket and per hint that has an  *)
(* endpoint; dnow is the reactor's clock in seconds, ddue the time the     *)
(* relay dials are due, from the relay_delay _connect chose;               *)
(* dlog keeps when _connect ran, when each dial started, whether the       *)
(* application cancelled connect(), whether the deadline call ran, and     *)
(* whether an inactivity timer fired after a cancel.  A delayed call runs  *)
(* when it is due; the inactivity timers and the overall deadline may fire *)
(* at any moment.                                                          *)
(* The peer of a Connection answers with what the Connection waits for or  *)
(* with something else.                                                    *)

Inbound == {"in1"}

\* the direct hints a peer may give: "tcp:h:1"; "tcp::-1", which has an
\* endpoint too; "onion:o1:1"; and "tcp:d2", a tcp hint without port
DirectHints ==
    {[name |-> "d1", hint |-> <<116, 99, 112, 58, 104, 58, 49>>],
     [name |-> "d3", hint |-> <<116, 99, 112, 58, 58, 45, 49>>],
     [name |-> "o1", hint |-> <<111, 110, 105, 111, 110, 58, 111, 49, 58, 49>>],
     [name |-> "d2", hint |-> <<116, 99, 112, 58, 100, 50>>]}

\* the relay hints: "tcp:h:9", the host of a direct hint; "bare"; and
\* "tcp:r2:x", a tcp hint whose port is no number
RelayHints ==
    {[name |-> "r1", hint |-> <<116, 99, 112, 58, 104, 58, 57>>],
     [name |-> "b1", hint |-> <<98, 97, 114, 101>>],
     [name |-> "r2", hint |-> <<116, 99, 112, 58, 114, 50, 58, 120>>]}

\* the hints of a set that _endpoint_from_hint gives an endpoint for
Viable(hints) ==
    {h \in hints : /\ _endpoint_from_hint(h.hint).raised = None
                   /\ ~_endpoint_from_hint(h.hint).ep.none}

\* the dials _connect's loops can start from a set of hints, by name
Endpoints(hints) == {h.name : h \in Viable(hints)}

\* a Transit after set_transit_key, get_direct_hints and add_their_*_hints
HintTransit(is_sender, direct, relay) ==
    LET d == Endpoints(direct)
        r == Endpoints(relay)
    IN  [side |-> IF is_sender THEN "S" ELSE "R",
         own |-> OwnerWithKey(is_sender),
         ks |-> set_transit_key(NewKeyState({TheCaller}), TheKey),
         conn |-> [l \in Inbound \cup d \cup r |->
                     NewConnection(l, IF l \in r THEN build_relay_handshake(TheKey)
                                      ELSE <<>>)],
         dial |-> [l \in d \cup r |-> "idle"],
         endpoint |-> [l \in d \cup r |-> NoEndpoint],
         relay |-> r,
         a |-> NewArbiter([c \in {"lis"} \cup d \cup r |-> Pending]),
         timer |-> FALSE]

\* every socket a Transit of SpecDial may have
Sockets == Inbound \cup Endpoints(DirectHints) \cup Endpoints(RelayHints)

\* the listener accepts: lp.stopListening() runs when _listener_d fires
Listening(t) == t.a.ds["lis"].st = "pending"

\* what the Connection waits for in its state
Awaited(c, o) ==
    CASE c.state = "relay" -> OK_
      [] c.state = "handshake" -> _expect_this(o)
      [] OTHER -> GO

DialInit ==
    /\ \E is_sender \in BOOLEAN :
       \E direct \in SUBSET DirectHints, relay \in SUBSET RelayHints :
         /\ Cardinality(Viable(direct)) <= MaxDirect
         /\ dhints = [direct |-> direct, relay |-> relay]
         /\ dt = HintTransit(is_sender, direct, relay)
    /\ dnow = 0
    /\ ddue = 0
    /\ dlog = [began |-> -1, started |-> [l \in DOMAIN dt.dial |-> -1],
               cancelled |-> FALSE, deadline |-> FALSE, late |-> FALSE]

\* connect(): the key is set, so _connect runs at once
DialConnect ==
    /\ dt.ks.kd[TheCaller].st = "none"
    /\ \E order \in Orders(DOMAIN dt.a.ds) :
       \E direct \in Orders(dhints.direct), relay \in Orders(dhints.relay) :
         LET r == _connect([dt EXCEPT !.ks = connect(dt.ks, TheCaller)],
                           TheCaller, order, direct, relay)
         IN  /\ dt' = r.t
             /\ ddue' = dnow + r.relay_delay
             /\ dlog' = [dlog EXCEPT
                           !.began = dnow,
                           !.started = [l \in DOMAIN dt.dial |->
                                          IF l \notin dt.relay
                                             /\ r.t.dial[l] # "idle"
                                          THEN dnow ELSE -1]]
    /\ UNCHANGED <<dhints, dnow>>
    /\ DialOnly

\* a second passes while a delayed call is waiting for its time
DialTick ==
    /\ \E r \in dt.relay : dt.dial[r] = "delayed" /\ dnow < ddue
    /\ dnow' = dnow + 1
    /\ UNCHANGED <<dt, dhints, ddue, dlog>>
    /\ DialOnly

\* the call deferLater scheduled: _start_connector for relay hint r
DialRelayStart(r) ==
    /\ r \in dt.relay
    /\ dt.dial[r] = "delayed"
    /\ ddue <= dnow
    /\ dt' = [dt EXCEPT !.dial[r] = "connecting"]
    /\ dlog' = [dlog EXCEPT !.started[r] = dnow]
    /\ UNCHANGED <<dhints, dnow, ddue>>
    /\ DialOnly

\* the listener, still listening, accepts a socket
DialAccept(i) ==
    /\ dt.conn[i].state = "too-early"
    /\ Listening(dt)
    /\ dt' = connection_made(dt, i)
    /\ UNCHANGED <<dhints, dnow, ddue, dlog>>
    /\ DialOnly

\* the dial of l connects
DialUp(l) ==
    /\ l \in DOMAIN dt.dial
    /\ dt.dial[l] = "connecting"
    /\ dt' = [connection_made(dt, l) EXCEPT !.dial[l] = "made"]
    /\ UNCHANGED <<dhints, dnow, ddue, dlog>>
    /\ DialOnly

\* the dial of l fails: refused, unreachable
DialRefused(l) ==
    /\ l \in DOMAIN dt.dial
    /\ dt.dial[l] = "connecting"
    /\ dt' = negotiation_failed([dt EXCEPT !.dial[l] = "failed"], l, "ConnectError")
    /\ UNCHANGED <<dhints, dnow, ddue, dlog>>
    /\ DialOnly

\* the transport of l reads what its peer wrote
DialDeliver(l) ==
    LET c == dt.conn[l]
    IN  /\ l \in DOMAIN dt.conn
        /\ c.state \in {"relay", "handshake", "wait-for-decision"}
        /\ ~c.closed /\ ~c.lost
        /\ \E data \in {Awaited(c, dt.own), NEVERMIND} :
           \E order \in Orders(DOMAIN dt.a.ds) :
             LET r == dataReceived(c, dt.own, data)
                 t1 == [dt EXCEPT !.conn[l] = r.c, !.own = r.o]
             IN  dt' = IF c.neg.st = "pending" /\ r.c.neg.st = "ok"
                       THEN negotiation_succeeded(t1, l, order) ELSE t1
        /\ UNCHANGED <<dhints, dnow, ddue, dlog>>
        /\ DialOnly

\* the inactivity timer of a Connection fires
DialTimeout(l) ==
    /\ l \in DOMAIN dt.conn
    /\ dt.conn[l].timer
    /\ dt' = [dt EXCEPT !.conn[l] = timeoutConnection(@)]
    /\ dlog' = [dlog EXCEPT !.late = @ \/ dlog.cancelled]
    /\ UNCHANGED <<dhints, dnow, ddue>>
    /\ DialOnly

\* the socket of l is gone: closed by this end, by the far end, or broken
DialLost(l) ==
    LET c == dt.conn[l]
        c2 == connectionLost(c)
        t1 == [dt EXCEPT !.conn[l] = c2]
    IN  /\ l \in DOMAIN dt.conn
        /\ c.state # "too-early"
        /\ ~c.lost
        /\ dt' = IF c.neg.st = "pending" /\ c2.neg.st = "err"
                 THEN negotiation_failed(t1, l, c2.neg.v) ELSE t1
        /\ UNCHANGED <<dhints, dnow, ddue, dlog>>
        /\ DialOnly

\* the call _not_forever scheduled: d.cancel after 2*TIMEOUT
DialDeadline ==
    /\ dt.timer
    /\ dlog' = [dlog EXCEPT !.deadline = TRUE]
    /\ \E order \in Orders(DOMAIN dt.a.ds) :
         LET a2 == ThereCanBeOnlyOne_cancel(dt.a, order, CancelErrors(dt))
         IN  dt' = [contenders_cancelled(dt, a2) EXCEPT !.timer = FALSE]
    /\ UNCHANGED <<dhints, dnow, ddue>>
    /\ DialOnly

\* the application cancels the Deferred connect() returned while the race
\* is undecided: it is chained to the arbiter's summary
DialCancel ==
    /\ dt.ks.kd[TheCaller].st = "chained"
    /\ dt.a.winner_d.st = "pending"
    /\ \E order \in Orders(DOMAIN dt.a.ds) :
         LET a2 == ThereCanBeOnlyOne_cancel(dt.a, order, CancelErrors(dt))
         IN  dt' = [contenders_cancelled(dt, a2) EXCEPT
                      !.timer = _done(dt.timer, a2)]
    /\ dlog' = [dlog EXCEPT !.cancelled = TRUE]
    /\ UNCHANGED <<dhints, dnow, ddue>>
    /\ DialOnly

DialNext ==
    \/ DialConnect
    \/ DialTick
    \/ \E r \in Sockets : DialRelayStart(r)
    \/ \E i \in Inbound : DialAccept(i)
    \/ \E l \in Sockets : DialUp(l)
    \/ \E l \in Sockets : DialRefused(l)
    \/ \E l \in Sockets : DialDeliver(l)
    \/ \E l \in Sockets : DialTimeout(l)
    \/ \E l \in Sockets : DialLost(l)
    \/ DialDeadline
    \/ DialCancel


\* the Connections of t whose socket was established
MadeIn(t) == {l \in DOMAIN t.conn : Made(t.conn[l])}

\* C13: when connect() has succeeded, the listener has stopped listening, no
\* contender of the arbiter is pending, no dial is connecting and no relay
\* dial is still delayed, exactly one Connection has its negotiation fired,
\* the one connect() yielded, and no other negotiation, inbound or outbound,
\* is pending.
C13_NothingPendingAtSuccess ==
    Succeeded(dt) =>
      /\ ~Listening(dt)
      /\ \A d \in DOMAIN dt.a.ds : dt.a.ds[d].st # "pending"
      /\ \A l \in DOMAIN dt.dial : dt.dial[l] \notin {"connecting", "delayed"}
      /\ _pending_connections(dt) = {}
      /\ \A l \in MadeIn(dt) :
           IF dt.conn[l].id = dt.a.winner_d.v
           THEN dt.conn[l].neg = Fired(dt.conn[l].id)
           ELSE dt.conn[l].neg.st = "err"
      /\ \E l \in MadeIn(dt) : dt.conn[l].id = dt.a.winner_d.v

\* C13 happens: the direct dial won while an inbound negotiation was pending
\* and the relay dial was still delayed; both were cancelled.
C13_Witness ==
    /\ Succeeded(dt)
    /\ dt.a.winner_d.v = "d1"
    /\ dt.conn["in1"].neg = Failed("CancelledError")
    /\ "r1" \in dt.relay
    /\ dt.dial["r1"] = "cancelled"
    /\ dlog.started["r1"] = -1


\* C14 as claimed: once the application has cancelled connect(), connect()
\* has failed, no contender is pending, the listener has stopped, every
\* Connection that was established has its socket closed and no negotiation
\* pending, no Connection has its inactivity timer running, and no
\* inactivity timer has fired since.
C14_CancelStopsEverything ==
    dlog.cancelled =>
      /\ dt.a.winner_d.st = "err"
      /\ \A d \in DOMAIN dt.a.ds : dt.a.ds[d].st # "pending"
      /\ ~Listening(dt)
      /\ \A l \in DOMAIN dt.dial : dt.dial[l] \notin {"connecting", "delayed"}
      /\ \A l \in MadeIn(dt) :
           /\ dt.conn[l].closed \/ dt.conn[l].lost
           /\ dt.conn[l].neg.st # "pending"
           /\ ~dt.conn[l].timer
      /\ ~dlog.late


\* the contender of t that the negotiation on link l feeds
ContenderOf(t, l) == IF l \in DOMAIN t.dial THEN l ELSE "lis"

\* C15: in every step, a negotiation result, a listener's result and an
\* arbiter's summary that have settled keep their value, the summary was
\* called back at most once, and no Deferred was fired twice (which would
\* raise AlreadyCalledError, or AttributeError on the cleared attribute); a
\* negotiation succeeds only while its contender is pending; a step that
\* cancels a pending negotiation leaves the Connection in "hung up" with
\* error CancelledError and its socket closed; and cancelling a negotiation
\* or a summary that has settled, or cancelling twice, changes nothing.
C15_SettleOnce ==
    [][\A s \in Sides :
         /\ tr[s].a.winner_d.st # "pending" => tr'[s].a.winner_d = tr[s].a.winner_d
         /\ tr[s].a.ds["lis"].st # "pending" => tr'[s].a.ds["lis"] = tr[s].a.ds["lis"]
         /\ tr'[s].a.nfire <= 1
         /\ tr'[s].a.winner_d.st # "pending" =>
              \A order \in Orders(DOMAIN tr[s].a.ds) :
                ThereCanBeOnlyOne_cancel(tr'[s].a, order, CancelErrors(tr'[s]))
                  = tr'[s].a
         /\ \A l \in Links :
              LET c == tr[s].conn[l]
                  c2 == tr'[s].conn[l]
              IN  /\ c.neg.st # "pending" => c2.neg = c.neg
                  /\ c2.error \notin {"AlreadyCalledError", "AttributeError"}
                  /\ (c.neg.st = "pending" /\ c2.neg.st = "ok") =>
                       tr[s].a.ds[ContenderOf(tr[s], l)].st = "pending"
                  /\ (c.neg.st = "pending" /\ c2.neg = Failed("CancelledError")) =>
                       /\ c2.state = "hung up"
                       /\ c2.error = "CancelledError"
                       /\ c2.closed
                  /\ c2.neg.st # "pending" => cancel_negotiation(c2) = c2
                  /\ cancel_negotiation(cancel_negotiation(c2)) = cancel_negotiation(c2)
      ]_vars

\* C15 happens: connect() has succeeded on a side, once; one of its other
\* Connections had its negotiation cancelled, then its inactivity timer
\* fired and its socket was lost, and its negotiation result is still the
\* cancellation.
C15_Witness ==
    \E s \in Sides, l \in Links :
      /\ Succeeded(tr[s])
      /\ tr[s].a.nfire = 1
      /\ tr[s].conn[l].neg = Failed("CancelledError")
      /\ tr[s].conn[l].error = "BadHandshake(timeout)"
      /\ tr[s].conn[l].lost

----------------------------------------------------------------------------
(* SpecTimer: one Connection against the clock.  tc is the Connection, a   *)
(* sender's or a receiver's, direct or through a relay, to its owner, tin  *)
(* the bytes its peer is going to send (the relay's "ok", the peer's       *)
(* handshake, the sender's "go"), which arrive in chunks of any size at    *)
(* any time, or never.  tnow is the reactor's clock in seconds and tdue    *)
(* the time of the call setTimeout scheduled, which runs when it is due.   *)
(* tlog keeps when the socket was made, when self.state last changed, when *)
(* the timer fired, how many bytes were delivered and whether the far end  *)
(* closed.                                                                 *)

\* what the peer of Connection c with owner o sends
PeerStream(c, o) ==
    (IF c.relay_handshake # <<>> THEN OK_ ELSE <<>>)
      \o _expect_this(o) \o (IF o.is_sender THEN <<>> ELSE GO)

TimerInit ==
    /\ \E is_sender \in BOOLEAN, relay \in {<<>>, build_relay_handshake(TheKey)} :
         /\ to = OwnerWithKey(is_sender)
         /\ tc = NewConnection("p", relay)
         /\ tin = PeerStream(tc, to)
    /\ tnow = 0
    /\ tdue = 0
    /\ tlog = [made_at |-> -1, changed_at |-> -1, timedout_at |-> -1,
               delivered |-> 0, far_closed |-> FALSE]

\* the socket is established: connectionMade, then startNegotiation
TimerMade ==
    /\ tc.state = "too-early"
    /\ LET r == startNegotiation(connectionMade(tc), to, "peer")
       IN  /\ tc' = r.c
           /\ to' = r.o
    /\ tdue' = tnow + TIMEOUT
    /\ tlog' = [tlog EXCEPT !.made_at = tnow, !.changed_at = tnow]
    /\ UNCHANGED <<tin, tnow>>
    /\ TimerOnly

\* a second passes; a timer that is due fires first
TimerTick ==
    /\ tnow < MaxClock
    /\ tc.timer => tnow < tdue
    /\ tnow' = tnow + 1
    /\ UNCHANGED <<tc, to, tin, tdue, tlog>>
    /\ TimerOnly

\* the transport reads the next n bytes of the peer
TimerDeliver ==
    /\ tc.state # "too-early"
    /\ ~tc.closed /\ ~tc.lost
    /\ \E n \in 1..Len(tin) :
         LET r == dataReceived(tc, to, Take(tin, n))
         IN  /\ tc' = r.c
             /\ to' = r.o
             /\ tin' = Drop(tin, n)
             /\ tlog' = [tlog EXCEPT
                           !.delivered = @ + n,
                           !.changed_at = IF r.c.state # tc.state THEN tnow ELSE @]
    /\ UNCHANGED <<tnow, tdue>>
    /\ TimerOnly

\* the call setTimeout scheduled
TimerTimeout ==
    /\ tc.timer
    /\ tdue <= tnow
    /\ tc' = timeoutConnection(tc)
    /\ tlog' = [tlog EXCEPT !.timedout_at = tnow]
    /\ UNCHANGED <<to, tin, tnow, tdue>>
    /\ TimerOnly

\* the socket is gone: after loseConnection(), or the far end closed
TimerLost ==
    /\ tc.state # "too-early"
    /\ ~tc.lost
    /\ tc' = connectionLost(tc)
    /\ tlog' = [tlog EXCEPT !.far_closed = ~tc.closed]
    /\ UNCHANGED <<to, tin, tnow, tdue>>
    /\ TimerOnly

TimerNext ==
    \/ TimerMade
    \/ TimerTick
    \/ TimerDeliver
    \/ TimerTimeout
    \/ TimerLost

\* C17 as claimed: when the inactivity timer has fired, at least TIMEOUT
\* seconds had passed since the Connection last changed its state.
C17_TimerResetByProgress ==
    tlog.timedout_at >= 0 => tlog.timedout_at - tlog.changed_at >= TIMEOUT

\* the peer has sent nothing and holds the socket open
Silent == tlog.made_at >= 0 /\ tlog.delivered = 0 /\ ~tlog.far_closed

\* C18: with a peer that sends nothing and holds the socket open, the
\* Connection never reaches "records"; before TIMEOUT seconds have passed
\* since the socket was made nothing is closed and the negotiation is
\* pending; the timer fires at exactly that time, sets the error to
\* BadHandshake("timeout") and closes the socket, and time does not pass it
\* by; and the negotiation result, once settled, is the failure
\* BadHandshake("timeout").
C18_SilentPeerTimesOut ==
    Silent =>
      /\ tc.state # "records"
      /\ tnow < tlog.made_at + TIMEOUT =>
           ~tc.closed /\ ~tc.lost /\ tc.neg.st = "pending" /\ tlog.timedout_at < 0
      /\ tnow > tlog.made_at + TIMEOUT => tlog.timedout_at >= 0
      /\ tlog.timedout_at >= 0 =>
           /\ tlog.timedout_at = tlog.made_at + TIMEOUT
           /\ tc.closed
           /\ tc.error = "BadHandshake(timeout)"
      /\ tc.neg.st # "pending" =>
           tc.lost /\ tc.neg = Failed("BadHandshake(timeout)")

\* C18 happens: a socket through the relay was made at second 2, nothing
\* arrived, the timer fired at second 17 and the negotiation has failed
\* with the timeout.
C18_Witness ==
    /\ Silent
    /\ tc.state = "relay"
    /\ tlog.made_at = 2
    /\ tlog.timedout_at = 17
    /\ tc.neg = Failed("BadHandshake(timeout)")
    /\ tc.lost


\* C19: a Connection in "records" has both record keys installed and both
\* nonces set, its negotiation result has fired with the Connection itself,
\* its inactivity timer is not running, and no timeout has closed it.
C19_RecordsState ==
    \A s \in Sides, l \in Links :
      LET c == tr[s].conn[l]
      IN  c.state = "records" =>
            /\ c.send_key = _sender_record_key(tr[s].own)
            /\ c.receive_key = _receiver_record_key(tr[s].own)
            /\ c.send_key # 0 /\ c.receive_key # 0
            /\ c.send_nonce >= 0 /\ c.next_receive_nonce >= 0
            /\ c.neg = Fired(c.id)
            /\ ~c.negd
            /\ ~c.timer
            /\ c.error # "BadHandshake(timeout)"

\* C19 happens: on one side a Connection is in "records" with nonces 0,
\* while the side's other Connection was closed by its inactivity timer.
C19_Witness ==
    \E s \in Sides, l, k \in Links :
      /\ tr[s].conn[l].state = "records"
      /\ tr[s].conn[l].send_nonce = 0
      /\ tr[s].conn[l].next_receive_nonce = 0
      /\ tr[s].conn[k].neg = Failed("BadHandshake(timeout)")


\* C20 as claimed: nothing is dialled before _connect runs.  Once it has
\* run, there is a dial for every hint "tcp:host:port" and for no other
\* hint; every direct dial started at the moment _connect ran; a relay dial
\* that has started did so RELAY_DELAY seconds after that moment or later
\* if some direct hint was viable, and at that very moment if none was.
C20_DirectFirstRelayDelayed ==
    LET direct == Viable(dhints.direct)
        relay == Viable(dhints.relay)
    IN  /\ DOMAIN dt.dial = {h.name : h \in direct \cup relay}
        /\ dlog.began < 0 => \A l \in DOMAIN dt.dial : dt.dial[l] = "idle"
        /\ dlog.began >= 0 =>
             /\ \A h \in direct :
                  /\ dlog.started[h.name] = dlog.began
                  /\ dt.dial[h.name] # "idle"
             /\ \A h \in relay :
                  LET r == h.name
                  IN  /\ dt.dial[r] \in {"idle", "delayed"} => dlog.started[r] < 0
                      /\ dt.dial[r] \in {"connecting", "made", "failed"} =>
                           dlog.started[r] >= 0
                      /\ dlog.started[r] >= 0 =>
                           IF direct # {}
                           THEN dlog.started[r] >= dlog.began + RELAY_DELAY
                           ELSE dlog.started[r] = dlog.began

----------------------------------------------------------------------------
(* SpecShake: one Connection reading what its peer sends.  hc is the       *)
(* Connection, a sender's or a receiver's, direct or through a relay, ho   *)
(* its owner, hin the bytes the peer is going to send: what the Connection *)
(* expects, or that with one more byte, or that with one byte wrong.  The  *)
(* transport hands them over in chunks of any size; hgot keeps the chunks  *)
(* handed over so far.                                                     *)

\* what the peer of Connection c may send
Streams(c, o) ==
    LET right == PeerStream(c, o)
    IN  {right, Append(right, 7)}
          \cup {[right EXCEPT ![kb[1]] = kb[2]] : kb \in (DOMAIN right) \X {0, 10}}

ShakeInit ==
    /\ \E is_sender \in BOOLEAN, relay \in {<<>>, build_relay_handshake(TheKey)} :
         /\ ho = OwnerWithKey(is_sender)
         /\ hc = NewConnection("p", relay)
         /\ hin \in Streams(hc, ho)
    /\ hgot = <<>>

\* the socket is established: connectionMade, then startNegotiation
ShakeMade ==
    /\ hc.state = "too-early"
    /\ LET r == startNegotiation(connectionMade(hc), ho, "peer")
       IN  /\ hc' = r.c
           /\ ho' = r.o
    /\ UNCHANGED <<hin, hgot>>
    /\ ShakeOnly

\* the transport reads the next n bytes of the peer
ShakeDeliver ==
    /\ hc.state # "too-early"
    /\ ~hc.closed /\ ~hc.lost
    /\ \E n \in 1..Len(hin) :
         LET r == dataReceived(hc, ho, Take(hin, n))
         IN  /\ hc' = r.c
             /\ ho' = r.o
             /\ hin' = Drop(hin, n)
             /\ hgot' = Append(hgot, Take(hin, n))
    /\ ShakeOnly

\* the socket is gone: after loseConnection(), or the far end closed
ShakeLost ==
    /\ hc.state # "too-early"
    /\ ~hc.lost
    /\ hc' = connectionLost(hc)
    /\ UNCHANGED <<ho, hin, hgot>>
    /\ ShakeOnly

ShakeNext ==
    \/ ShakeMade
    \/ ShakeDeliver
    \/ ShakeLost

\* the waiting states of Connection c in order, each with the bytes it
\* expects
Waits(c, o) ==
    (IF c.relay_handshake # <<>>
     THEN <<[state |-> "relay", expected |-> OK_]>> ELSE <<>>)
      \o <<[state |-> "handshake", expected |-> _expect_this(o)]>>
      \o (IF o.is_sender THEN <<>>
          ELSE <<[state |-> "wait-for-decision", expected |-> GO]>>)

\* where the bytes b leave a Connection that has these waiting states before
\* it: in the state at whose expected bytes b ends, holding what is left of
\* b, or hung up at the state where b deviates
RECURSIVE Reading(_, _)
Reading(waits, b) ==
    IF waits = <<>> THEN [state |-> "records", at |-> "records", buf |-> b]
    ELSE LET w == Head(waits)
         IN  IF Len(b) < Len(w.expected) /\ b = Take(w.expected, Len(b))
             THEN [state |-> w.state, at |-> w.state, buf |-> b]
             ELSE IF Len(b) >= Len(w.expected)
                     /\ Take(b, Len(w.expected)) = w.expected
             THEN Reading(Tail(waits), Drop(b, Len(w.expected)))
             ELSE [state |-> "hung up", at |-> w.state, buf |-> b]

\* what a Connection has written when its reading has come to state `at`
Written(c, o, at) ==
    (IF c.relay_handshake # <<>> THEN <<c.relay_handshake>> ELSE <<>>)
      \o (IF at = "relay" THEN <<>> ELSE <<_send_this(o)>>)
      \o (IF at = "records" /\ o.is_sender THEN <<GO>> ELSE <<>>)

\* C21: however the peer's bytes are cut into chunks, a started Connection
\* is where the bytes handed over so far leave it.  While they end in a
\* strict prefix of what a waiting state expects, the Connection is in that
\* state with that prefix as its buffer, open and without error, and has
\* written nothing since it entered the state; expected bytes that are
\* complete are removed, exactly those, what follows them is the buffer of
\* the next state, and the Connection has moved on; once a byte deviates the
\* Connection is "hung up" with the error BadHandshake, the socket is
\* closed, nothing more was written than on entering the state that saw the
\* deviation, and the negotiation result, once settled, is that failure.
C21_PrefixCheck ==
    hc.state # "too-early" =>
      LET w == Reading(Waits(hc, ho), Flatten(hgot))
      IN  /\ hc.state = w.state
          /\ hc.out = Written(hc, ho, w.at)
          /\ w.state # "hung up" =>
               /\ hc.buf = w.buf
               /\ ~hc.closed
               /\ hc.error = None
          /\ w.state = "hung up" =>
               /\ hc.closed
               /\ hc.error = "BadHandshake(got)"
               /\ hc.neg.st # "pending" => hc.neg = Failed("BadHandshake(got)")
               /\ hc.lost => hc.neg = Failed("BadHandshake(got)")

\* C21 happens: a receiver's Connection through a relay was handed "ok" and
\* the start of the sender's handshake in one chunk, moved on to "handshake"
\* keeping that start, then got the rest of the handshake with its last
\* byte wrong in a second chunk, and has hung up and failed.
C21_Witness ==
    /\ hc.relay_handshake # <<>>
    /\ ~ho.is_sender
    /\ Len(hgot) = 2
    /\ Len(hgot[1]) = Len(OK_) + 1
    /\ StartsWith(Flatten(hgot), OK_ \o Take(_expect_this(ho), 2))
    /\ hc.state = "hung up"
    /\ hc.neg = Failed("BadHandshake(got)")
    /\ hc.out = <<hc.relay_handshake, _send_this(ho)>>

----------------------------------------------------------------------------
(* Claims about the relay dials of SpecDial.                               *)

\* C22 as claimed: a relay dial that _connect has scheduled and whose
\* delayed _start_connector call has not run when the race is decided (a
\* contender has succeeded, or connect() was cancelled or reached its
\* deadline) has been cancelled: its contender has failed, no socket to the
\* relay was made, nothing was written to it and no timer runs for it; and
\* no later step starts it.
C22_DelayedRelayNeverDialled ==
    [][\A r \in Sockets :
         LET Undialled == /\ r \in dt.relay
                          /\ Racing(dt)
                          /\ dt.dial[r] # "idle"
                          /\ \/ \E d \in DOMAIN dt.a.ds : dt.a.ds[d].st = "ok"
                             \/ dlog.cancelled
                             \/ dlog.deadline
                          /\ dlog.started[r] < 0
             Untouched == /\ dt.dial[r] = "cancelled"
                          /\ dt.a.ds[r].st = "err"
                          /\ dt.conn[r].state = "too-early"
                          /\ dt.conn[r].out = <<>>
                          /\ ~dt.conn[r].timer
         IN  /\ Undialled' => Untouched'
             /\ Undialled => Undialled']_vars

----------------------------------------------------------------------------
(* Claims about the transit key in the race.                               *)

\* C23 as claimed: while a Transit has no transit key, none of its
\* Connections, inbound or outbound, has left "start": none has computed
\* and written its handshake.
C23_NoHandshakeBeforeKey ==
    \A s \in Sides :
      tr[s].own.key = NoKey =>
        \A l \in Links :
          /\ tr[s].conn[l].state \in {"too-early", "start"}
          /\ tr[s].conn[l].out = <<>>

----------------------------------------------------------------------------
(* Claims about the end of connect().                                      *)

\* C24: with the key set and the listener started, a connect() call whose
\* race has begun eventually settles, with a Connection or with a failure,
\* whatever the dials and the peers do, provided the reactor runs the
\* deadline call when it is due; and whenever the race has settled the
\* deadline call is no longer pending.
C24_ConnectSettles ==
    /\ Racing(dt) ~> connect_result(dt, TheCaller).st # "pending"
    /\ [](connect_result(dt, TheCaller).st # "pending" => ~dt.timer)

\* C24 happens: the direct dial was refused, the relay dial connected and
\* lost, the peer accepted by the listener stayed silent; nothing but the
\* deadline was left to end the race, it cancelled the listener and the
\* silent Connection, and connect() has failed with no timer pending.
C24_Witness ==
    /\ Racing(dt)
    /\ DOMAIN dt.dial = {"d1", "r1"}
    /\ dlog.deadline
    /\ ~dlog.cancelled
    /\ dt.a.winner_d.st = "err"
    /\ ~dt.timer
    /\ dt.dial["d1"] = "failed"
    /\ dt.dial["r1"] = "made"
    /\ dt.conn["r1"].neg = Failed("BadHandshake(connection lost)")
    /\ dt.a.ds["lis"] = Failed("CancelledError")
    /\ \E i \in Inbound :
         /\ dt.conn[i].out # <<>>
         /\ dt.conn[i].buf = <<>>
         /\ dt.conn[i].neg = Failed("CancelledError")

----------------------------------------------------------------------------
(* The specifications.  Each starts one part of the program and leaves the *)
(* variables of the other parts idle.                                      *)

ArbIdle == arb = None /\ timer = FALSE /\ ran = FALSE /\ hist = <<>>

KeyIdle == ks = None /\ registered = <<>>

RecIdle == sc = None /\ rc = None /\ wire = <<>> /\ sent = <<>> /\ injected = 0

ReadyIdle == ro = None /\ rconn = None /\ rin = None /\ rcalls = <<>>

RaceIdle == tr = None /\ got = None

EndIdle == ec = None /\ ep = None /\ ewire = <<>> /\ eend = None

DialIdle == dt = None /\ dhints = None /\ dnow = 0 /\ ddue = 0 /\ dlog = None

TimerIdle == tc = None /\ to = None /\ tin = <<>> /\ tnow = 0 /\ tdue = 0 /\ tlog = None

ShakeIdle == hc = None /\ ho = None /\ hin = <<>> /\ hgot = <<>>

ArbStart == ArbInit /\ KeyIdle /\ RecIdle /\ ReadyIdle /\ RaceIdle /\ EndIdle /\ DialIdle /\ TimerIdle /\ ShakeIdle

SpecArb == ArbStart /\ [][ArbNext]_vars

KeyStart == KeyInit /\ ArbIdle /\ RecIdle /\ ReadyIdle /\ RaceIdle /\ EndIdle /\ DialIdle /\ TimerIdle /\ ShakeIdle

SpecKey == KeyStart /\ [][KeyNext]_vars

RecStart == RecInit /\ ArbIdle /\ KeyIdle /\ ReadyIdle /\ RaceIdle /\ EndIdle /\ DialIdle /\ TimerIdle /\ ShakeIdle

SpecRec == RecStart /\ [][RecNext]_vars

ReadyStart == ReadyInit /\ ArbIdle /\ KeyIdle /\ RecIdle /\ RaceIdle /\ EndIdle /\ DialIdle /\ TimerIdle /\ ShakeIdle

SpecReady == ReadyStart /\ [][ReadyNext]_vars

EndStart == EndInit /\ ArbIdle /\ KeyIdle /\ RecIdle /\ ReadyIdle /\ RaceIdle /\ DialIdle /\ TimerIdle /\ ShakeIdle

SpecEnd == EndStart /\ [][EndNext]_vars

DialStart == DialInit /\ ArbIdle /\ KeyIdle /\ RecIdle /\ ReadyIdle /\ RaceIdle /\ EndIdle /\ TimerIdle /\ ShakeIdle

SpecDial == DialStart /\ [][DialNext]_vars

TimerStart == TimerInit /\ ArbIdle /\ KeyIdle /\ RecIdle /\ ReadyIdle /\ RaceIdle /\ EndIdle /\ DialIdle /\ ShakeIdle

SpecTimer == TimerStart /\ [][TimerNext]_vars

\* the reactor runs the call _not_forever scheduled: weak fairness of
\* DialDeadline, which is enabled exactly while the call is pending
DeadlineRuns == []<>(~dt.timer) \/ []<><<DialDeadline>>_vars

SpecDialFair == DialStart /\ [][DialNext]_vars /\ DeadlineRuns

ShakeStart == ShakeInit /\ ArbIdle /\ KeyIdle /\ RecIdle /\ ReadyIdle /\ RaceIdle /\ EndIdle /\ DialIdle /\ TimerIdle

SpecShake == ShakeStart /\ [][ShakeNext]_vars

Init == RaceInit /\ ArbIdle /\ KeyIdle /\ RecIdle /\ ReadyIdle /\ EndIdle /\ DialIdle /\ TimerIdle /\ ShakeIdle

Spec == Init /\ [][Next]_vars

====
